---------------------------- MODULE Spec2Model ----------------------------
(***************************************************************************)
(* A model of the log-analysis assistant's chat pipeline                   *)
(* (src/app/chat_interface.py, src/app/knowledge_base.py): query           *)
(* classification, knowledge search under a deadline, prompt composition   *)
(* under size caps, the model call under a deadline, and the conversation  *)
(* memory.                                                                 *)
(*                                                                         *)
(* A Python str is modelled as a sequence of characters (one-character     *)
(* strings; "BULLET" stands for the single character U+2022), so that      *)
(* len, slicing, lower(), split(), title() and the `in` substring test are *)
(* computed as Python computes them.                                       *)
(***************************************************************************)
EXTENDS Integers, Sequences, FiniteSets, TLC

-----------------------------------------------------------------------------
(* Python str primitives *)

Min(a, b) == IF a <= b THEN a ELSE b

Max(a, b) == IF a >= b THEN a ELSE b

UpperLetters ==
    <<"A","B","C","D","E","F","G","H","I","J","K","L","M",
      "N","O","P","Q","R","S","T","U","V","W","X","Y","Z">>

LowerLetters ==
    <<"a","b","c","d","e","f","g","h","i","j","k","l","m",
      "n","o","p","q","r","s","t","u","v","w","x","y","z">>

UpperSet == {UpperLetters[i] : i \in 1..Len(UpperLetters)}

LowerSet == {LowerLetters[i] : i \in 1..Len(LowerLetters)}

ToLower == [c \in UpperSet |-> LowerLetters[CHOOSE i \in 1..Len(UpperLetters) : UpperLetters[i] = c]]

ToUpper == [c \in LowerSet |-> UpperLetters[CHOOSE i \in 1..Len(LowerLetters) : LowerLetters[i] = c]]

\* one character of str.lower() / str.upper()
LowerChar(c) == IF c \in UpperSet THEN ToLower[c] ELSE c

UpperChar(c) == IF c \in LowerSet THEN ToUpper[c] ELSE c

IsCased(c) == c \in UpperSet \/ c \in LowerSet

\* the characters str.split() and str.strip() treat as whitespace
IsSpace(c) == c \in {" ", "\n", "\t"}

\* s.lower()
lower(s) == [i \in 1..Len(s) |-> LowerChar(s[i])]

\* s.title(): a cased character is upper-cased after an uncased one (or at the
\* start) and lower-cased after a cased one
title(s) ==
    [i \in 1..Len(s) |->
        IF i = 1 \/ ~IsCased(s[i - 1]) THEN UpperChar(s[i]) ELSE LowerChar(s[i])]

\* s.replace(a, b) for single characters a, b
replace(s, a, b) == [i \in 1..Len(s) |-> IF s[i] = a THEN b ELSE s[i]]

\* s[:n] for n >= 0
Prefix(s, n) == SubSeq(s, 1, Min(n, Len(s)))

\* s[-n:] for n > 0
Suffix(s, n) == SubSeq(s, Max(1, Len(s) - n + 1), Len(s))

\* p in s (substring test)
In(p, s) ==
    \E i \in 1..(Len(s) - Len(p) + 1) : \A j \in 1..Len(p) : s[i + j - 1] = p[j]

\* s.endswith(p)
endswith(s, p) ==
    /\ Len(p) <= Len(s)
    /\ \A j \in 1..Len(p) : s[Len(s) - Len(p) + j] = p[j]

\* s.strip()
strip(s) ==
    LET keep == {i \in 1..Len(s) : ~IsSpace(s[i])}
    IN  IF keep = {} THEN << >>
        ELSE SubSeq(s, CHOOSE i \in keep : \A k \in keep : i <= k,
                       CHOOSE i \in keep : \A k \in keep : i >= k)

\* len(s.split()): the number of maximal runs of non-whitespace characters
SplitLen(s) ==
    Cardinality({i \in 1..Len(s) : ~IsSpace(s[i]) /\ (i = 1 \/ IsSpace(s[i - 1]))})

\* sep.join(parts)
RECURSIVE join(_, _)
join(sep, parts) ==
    IF Len(parts) = 0 THEN << >>
    ELSE IF Len(parts) = 1 THEN parts[1]
    ELSE parts[1] \o sep \o join(sep, Tail(parts))

\* n copies of the character c
Repeat(c, n) == [i \in 1..n |-> c]

-----------------------------------------------------------------------------
(* String literals of chat_interface.py *)

UserQueryLabel == <<"U","s","e","r"," ","Q","u","e","r","y",":"," ">>
FileNote ==
    <<"N","o","t","e",":"," ","U","s","e","r"," ","h","a","s"," ","u","p","l","o","a","d","e","d",
      " ","a"," ","l","o","g"," ","f","i","l","e"," ","f","o","r"," ","a","n","a","l","y","s",
      "i","s",".">>
SimpleClosing ==
    <<"P","l","e","a","s","e"," ","p","r","o","v","i","d","e"," ","a"," ","h","e","l","p","f","u",
      "l"," ","a","n","d"," ","c","o","n","c","i","s","e"," ","r","e","s","p","o","n","s","e",
      ".">>
ContextLabel == <<"R","e","l","e","v","a","n","t"," ","C","o","n","t","e","x","t",":","\n">>
Ellipsis == <<".",".",".">>
HistoryLabel == <<"P","r","e","v","i","o","u","s"," ","C","o","n","t","e","x","t",":"," ">>
FullClosing ==
    <<"P","l","e","a","s","e"," ","p","r","o","v","i","d","e"," ","a"," ","h","e","l","p","f","u",
      "l"," ","r","e","s","p","o","n","s","e"," ","b","a","s","e","d"," ","o","n"," ","t","h",
      "e"," ","a","v","a","i","l","a","b","l","e"," ","c","o","n","t","e","x","t",".">>
ParagraphSep == <<"\n","\n">>
TruncationMarker ==
    <<"\n","\n","[","T","r","u","n","c","a","t","e","d"," ","f","o","r"," ","p","e","r","f","o","r",
      "m","a","n","c","e","]">>
UserLabel == <<"U","s","e","r",":"," ">>
AssistantLabel == <<"A","s","s","i","s","t","a","n","t",":"," ">>
HistorySep == <<" ","|"," ">>
SorryPrefix ==
    <<"S","o","r","r","y",","," ","I"," ","e","n","c","o","u","n","t","e","r","e","d"," ","a","n",
      " ","e","r","r","o","r",":"," ">>
SorrySuffix == <<"."," ","P","l","e","a","s","e"," ","t","r","y"," ","a","g","a","i","n",".">>
TimeoutMessage ==
    <<"R","e","s","p","o","n","s","e"," ","t","i","m","e","o","u","t"," ","-"," ","p","l","e","a",
      "s","e"," ","t","r","y"," ","a"," ","s","i","m","p","l","e","r"," ","q","u","e","r","y">>
Greetings ==
    <<
    <<"h","e","l","l","o">>,
    <<"h","i">>,
    <<"t","h","a","n","k","s">>,
    <<"t","h","a","n","k"," ","y","o","u">>
    >>

FollowupIndicators ==
    <<
    <<"a","l","s","o">>,
    <<"a","d","d","i","t","i","o","n","a","l","l","y">>,
    <<"f","u","r","t","h","e","r","m","o","r","e">>,
    <<"m","o","r","e","o","v","e","r">>,
    <<"w","h","a","t"," ","a","b","o","u","t">>,
    <<"h","o","w"," ","a","b","o","u","t">>,
    <<"a","n","d">>,
    <<"b","u","t">>,
    <<"c","o","n","t","i","n","u","e">>,
    <<"m","o","r","e">>,
    <<"o","t","h","e","r">>,
    <<"a","n","o","t","h","e","r">>
    >>

-----------------------------------------------------------------------------
(* ChatInterface: classification and prompt composition *)

SIMPLE_MAX_WORDS == 5

SIMPLE_QUESTION_LEN == 50

CONTEXT_LIMIT == 500

PROMPT_LIMIT == 1200

HISTORY_MSG_LIMIT == 80

RESULT_LIMIT == 800

\* langchain ConversationBufferWindowMemory(k=5)
MEMORY_K == 5

\* any(p in s for p in patterns)
AnyIn(patterns, s) == \E k \in 1..Len(patterns) : In(patterns[k], s)

_is_simple_query(query) ==
    \/ SplitLen(query) <= SIMPLE_MAX_WORDS
    \/ AnyIn(Greetings, lower(query))
    \/ (endswith(strip(query), <<"?">>) /\ Len(query) < SIMPLE_QUESTION_LEN)

_seems_like_followup(query) == AnyIn(FollowupIndicators, lower(query))

_build_simple_prompt(user_input, uploaded) ==
    join(ParagraphSep,
         <<UserQueryLabel \o user_input>>
         \o (IF uploaded THEN <<FileNote>> ELSE << >>)
         \o <<SimpleClosing>>)

\* content[:80] + "..." if len(content) > 80 else content
TruncateMessage(content) ==
    IF Len(content) > HISTORY_MSG_LIMIT
    THEN Prefix(content, HISTORY_MSG_LIMIT) \o Ellipsis
    ELSE content

FormatMessage(msg) ==
    IF msg.role = "human" THEN UserLabel \o TruncateMessage(msg.content)
    ELSE AssistantLabel \o TruncateMessage(msg.content)

\* a window of k messages instead of k exchanges
load_memory_variables_k_messages(mem) == Suffix(mem, MEMORY_K)

\* memory.load_memory_variables({})['history']: the last 2k messages of the buffer
load_memory_variables(mem) == Suffix(mem, 2 * MEMORY_K)

_get_recent_history(mem, max_exchanges) ==
    LET history == load_memory_variables(mem)
        recent_messages == Suffix(history, max_exchanges * 2)
    IN  IF Len(history) = 0 THEN << >>
        ELSE join(HistorySep, [i \in 1..Len(recent_messages) |-> FormatMessage(recent_messages[i])])

\* the "\n\n"-joined parts before the hard limit is applied
AssembledPrompt(user_input, ctx, uploaded, mem) ==
    LET history == _get_recent_history(mem, 1)
    IN  join(ParagraphSep,
             <<UserQueryLabel \o user_input>>
             \o (IF Len(ctx) > 0 /\ Len(strip(ctx)) > 10
                 THEN <<ContextLabel \o (IF Len(ctx) > CONTEXT_LIMIT
                                         THEN Prefix(ctx, CONTEXT_LIMIT) \o Ellipsis
                                         ELSE ctx)>>
                 ELSE << >>)
             \o (IF uploaded THEN <<FileNote>> ELSE << >>)
             \o (IF _seems_like_followup(user_input) /\ Len(history) > 0
                 THEN <<HistoryLabel \o history>>
                 ELSE << >>)
             \o <<FullClosing>>)

_build_optimized_prompt(user_input, ctx, uploaded, mem) ==
    LET final_prompt == AssembledPrompt(user_input, ctx, uploaded, mem)
    IN  IF Len(final_prompt) > PROMPT_LIMIT
        THEN Prefix(final_prompt, PROMPT_LIMIT) \o TruncationMarker
        ELSE final_prompt

-----------------------------------------------------------------------------
(* Inputs: the queries, contexts and histories the model draws from *)

Q_hi == <<"h","i">>

Q_what_about ==
    <<"w","h","a","t"," ","a","b","o","u","t"," ","t","h","e"," ","d","i","s","k"," ","u","s","a",
      "g","e">>

Q_memory_stats == <<"s","h","o","w"," ","m","e"," ","m","e","m","o","r","y"," ","s","t","a","t","s">>

Q_standby ==
    <<"r","e","s","t","a","r","t"," ","t","h","e"," ","s","t","a","n","d","b","y"," ","h","a","n",
      "d","l","e","r"," ","s","e","r","v","i","c","e"," ","o","n"," ","e","v","e","r","y"," ",
      "n","o","d","e">>

Q_this ==
    <<"w","h","y"," ","i","s"," ","t","h","i","s"," ","s","e","r","v","i","c","e"," ","f","a","i",
      "l","i","n","g"," ","w","i","t","h"," ","c","o","n","n","e","c","t","i","o","n"," ","r",
      "e","f","u","s","e","d"," ","e","r","r","o","r","s">>

Q_port ==
    <<"c","o","n","n","e","c","t","i","o","n"," ","r","e","f","u","s","e","d"," ","o","n"," ","p",
      "o","r","t"," ","8","0","8","0">>

Q_also ==
    <<"p","l","e","a","s","e"," ","a","l","s","o"," ","c","h","e","c","k"," ","t","h","e"," ","m",
      "e","m","o","r","y"," ","a","n","d"," ","d","i","s","k"," ","u","s","a","g","e"," ","o",
      "n"," ","t","h","e"," ","s","e","r","v","e","r">>

Q_question ==
    <<"i","s"," ","t","h","e"," ","w","e","b"," ","s","e","r","v","e","r"," ","d","o","w","n"," ",
      "n","o","w","?">>

Q_hello ==
    <<"H","e","l","l","o",","," ","c","a","n"," ","y","o","u"," ","h","e","l","p"," ","m","e"," ",
      "l","o","o","k"," ","i","n","t","o"," ","t","h","e","s","e"," ","s","e","r","v","e","r",
      " ","l","o","g","s">>

Q_plain ==
    <<"s","e","r","v","e","r"," ","r","e","p","o","r","t","s"," ","e","r","r","o","r","s"," ","a",
      "f","t","e","r"," ","e","v","e","r","y"," ","n","i","g","h","t","l","y"," ","b","a","c",
      "k","u","p"," ","j","o","b">>

Q_forty ==
    <<"t","h","e"," ","n","g","i","n","x"," ","s","e","r","v","e","r"," ","k","e","e","p","s"," ",
      "r","e","s","t","a","r","t","i","n","g"," ","a","f","t","e","r"," ","e","v","e","r","y",
      " ","d","e","p","l","o","y"," ","s","o"," ","t","e","l","l"," ","m","e"," ","w","h","e",
      "r","e"," ","t","o"," ","l","o","o","k"," ","n","e","x","t"," ","b","e","c","a","u","s",
      "e"," ","u","s","e","r","s"," ","r","e","p","o","r","t"," ","e","r","r","o","r","s"," ",
      "o","n"," ","e","v","e","r","y"," ","p","a","g","e"," ","l","o","a","d"," ","s","i","n",
      "c","e"," ","l","a","s","t"," ","w","e","e","k"," ","e","v","e","n"," ","t","h","o","u",
      "g","h"," ","t","h","e"," ","c","o","n","f","i","g"," ","w","a","s"," ","n","e","v","e",
      "r"," ","e","d","i","t","e","d"," ","b","y"," ","a","n","y","o","n","e"," ","o","n"," ",
      "o","u","r"," ","t","e","a","m"," ","p","l","e","a","s","e"," ","t","r","a","c","e">>

ErrorWord == <<"e","r","r","o","r"," ">>
AlsoCheck == <<"a","l","s","o"," ","c","h","e","c","k"," ">>
ThanksWord == <<"t","h","a","n","k","s"," ">>
AssistantReply ==
    <<"C","h","e","c","k"," ","t","h","e"," ","s","e","r","v","i","c","e"," ","s","t","a","t","u",
      "s"," ","w","i","t","h"," ","s","y","s","t","e","m","c","t","l"," ","a","n","d"," ","r",
      "e","v","i","e","w"," ","t","h","e"," ","f","i","r","e","w","a","l","l"," ","r","u","l",
      "e","s",".">>


LongLen == PROMPT_LIMIT + 100

\* "error error error ..." of n characters
ErrorText(n) == [i \in 1..n |-> ErrorWord[((i - 1) % Len(ErrorWord)) + 1]]

\* one word of LongLen characters
Q_long_word == Repeat("x", LongLen)

\* a many-word follow-up query longer than the prompt limit
Q_long_followup == AlsoCheck \o ErrorText(LongLen)

\* a many-word query longer than the prompt limit that contains a greeting
Q_long_greeting == ThanksWord \o ErrorText(LongLen)

ShortQueries ==
    {Q_hi, Q_what_about, Q_memory_stats, Q_standby, Q_this, Q_port, Q_also,
     Q_question, Q_hello, Q_plain, Q_forty}

LongQueries == {Q_long_word, Q_long_followup, Q_long_greeting}

\* one query typed in two ways: capitalised, and lower-case between blanks
Q_nginx == <<"N","g","i","n","x"," ","r","e","s","t","a","r","t">>

Q_nginx_padded == <<" ">> \o lower(Q_nginx) \o <<" ">>

Queries == ShortQueries \cup LongQueries \cup {Q_nginx, Q_nginx_padded}

Human(content) == [role |-> "human", content |-> content]

AI(content) == [role |-> "ai", content |-> content]

\* memory.save_context({"input": i}, {"output": o}): one HumanMessage, one AIMessage
save_context(mem, input, output) == mem \o <<Human(input), AI(output)>>

\* _update_memory_async(user_input, ai_response), lines 249-258
_update_memory_async(mem, input, output) == save_context(mem, input, output)

\* conversation buffers the composition is tried on
Histories ==
    {<< >>,
     save_context(<< >>, Q_plain, AssistantReply),
     save_context(save_context(<< >>, Q_hi, AssistantReply), Q_forty, ErrorText(200))}

-----------------------------------------------------------------------------
(* KnowledgeBase: the knowledge data (a JSON value) and the search *)

K_error_solutions == <<"e","r","r","o","r","_","s","o","l","u","t","i","o","n","s">>
K_keywords == <<"k","e","y","w","o","r","d","s">>
K_description == <<"d","e","s","c","r","i","p","t","i","o","n">>
K_solutions == <<"s","o","l","u","t","i","o","n","s">>
K_system_commands == <<"s","y","s","t","e","m","_","c","o","m","m","a","n","d","s">>
K_centos_specific == <<"c","e","n","t","o","s","_","s","p","e","c","i","f","i","c">>
NoDescription == <<"N","o"," ","d","e","s","c","r","i","p","t","i","o","n">>
DescriptionLabel == <<"D","e","s","c","r","i","p","t","i","o","n",":"," ">>
SolutionsLabel == <<"S","o","l","u","t","i","o","n","s",":","\n">>
Bold == <<"*","*">>
CommandsTitle == <<" ","C","o","m","m","a","n","d","s","*","*","\n">>
CentOSTitle == <<"*","*","C","e","n","t","O","S"," ">>
Indent == <<" "," ">>
BulletPrefix == <<" "," ","BULLET"," ">>
NoneText == <<"N","o","n","e">>
Newline == <<"\n">>
Digits == <<"0","1","2","3","4","5","6","7","8","9">>

\* command_keywords of search_relevant_content: keyword -> command_type, in dict order
CommandKeywords ==
    <<
    <<"m","e","m","o","r","y">>,
    <<"d","i","s","k">>,
    <<"p","r","o","c","e","s","s">>,
    <<"l","o","g">>
    >>
CommandTypes ==
    <<
    <<"m","e","m","o","r","y","_","c","h","e","c","k">>,
    <<"d","i","s","k","_","c","h","e","c","k">>,
    <<"p","r","o","c","e","s","s","_","c","h","e","c","k">>,
    <<"l","o","g","_","a","n","a","l","y","s","i","s">>
    >>
CentOSTerms ==
    <<
    <<"c","e","n","t","o","s">>,
    <<"f","i","r","e","w","a","l","l">>,
    <<"s","e","r","v","i","c","e">>,
    <<"y","u","m">>
    >>

\* JSON values as json.load returns them; a dict keeps its items in insertion order
JStr(s) == [t |-> "str", v |-> s]

JList(xs) == [t |-> "list", v |-> xs]

JDict(items) == [t |-> "dict", v |-> items]

JNull == [t |-> "null", v |-> << >>]

JNum(n) == [t |-> "num", v |-> n]

Item(k, val) == [k |-> k, val |-> val]

\* default_kb of load_knowledge_base
default_kb ==
    JDict(<<
      Item(<<"e","r","r","o","r","_","s","o","l","u","t","i","o","n","s">>,
           JDict(<<
             Item(<<"o","u","t","o","f","m","e","m","o","r","y","e","r","r","o","r">>,
                  JDict(<<
                    Item(<<"d","e","s","c","r","i","p","t","i","o","n">>,
                         JStr(<<"J","a","v","a"," ","h","e","a","p"," ","s","p","a","c","e"," ","e","x","h","a","u","s",
                               "t","e","d">>)),
                    Item(<<"s","o","l","u","t","i","o","n","s">>,
                         JList(<<
                           JStr(<<"I","n","c","r","e","a","s","e"," ","J","V","M"," ","h","e","a","p"," ","s","i","z","e",
                                 " ","w","i","t","h"," ","-","X","m","x"," ","p","a","r",
                                 "a","m","e","t","e","r">>),
                           JStr(<<"O","p","t","i","m","i","z","e"," ","m","e","m","o","r","y"," ","u","s","a","g","e"," ",
                                 "i","n"," ","a","p","p","l","i","c","a","t","i","o","n",
                                 " ","c","o","d","e">>),
                           JStr(<<"C","h","e","c","k"," ","f","o","r"," ","m","e","m","o","r","y"," ","l","e","a","k","s">>),
                           JStr(<<"U","s","e"," ","m","e","m","o","r","y"," ","p","r","o","f","i","l","i","n","g"," ","t",
                                 "o","o","l","s">>)
                         >>)),
                    Item(<<"k","e","y","w","o","r","d","s">>,
                         JList(<<
                           JStr(<<"m","e","m","o","r","y">>),
                           JStr(<<"h","e","a","p">>),
                           JStr(<<"o","o","m">>),
                           JStr(<<"o","u","t","o","f","m","e","m","o","r","y">>)
                         >>))
                  >>)),
             Item(<<"c","o","n","n","e","c","t","i","o","n","_","r","e","f","u","s","e","d">>,
                  JDict(<<
                    Item(<<"d","e","s","c","r","i","p","t","i","o","n">>,
                         JStr(<<"S","e","r","v","i","c","e"," ","n","o","t"," ","a","c","c","e","p","t","i","n","g"," ",
                               "c","o","n","n","e","c","t","i","o","n","s">>)),
                    Item(<<"s","o","l","u","t","i","o","n","s">>,
                         JList(<<
                           JStr(<<"C","h","e","c","k"," ","i","f"," ","t","h","e"," ","s","e","r","v","i","c","e"," ","i",
                                 "s"," ","r","u","n","n","i","n","g">>),
                           JStr(<<"V","e","r","i","f","y"," ","p","o","r","t"," ","i","s"," ","n","o","t"," ","b","l","o",
                                 "c","k","e","d"," ","b","y"," ","f","i","r","e","w","a",
                                 "l","l">>),
                           JStr(<<"C","h","e","c","k"," ","s","e","r","v","i","c","e"," ","c","o","n","f","i","g","u","r",
                                 "a","t","i","o","n">>),
                           JStr(<<"R","e","s","t","a","r","t"," ","t","h","e"," ","s","e","r","v","i","c","e"," ","i","f",
                                 " ","n","e","c","e","s","s","a","r","y">>)
                         >>)),
                    Item(<<"k","e","y","w","o","r","d","s">>,
                         JList(<<
                           JStr(<<"c","o","n","n","e","c","t","i","o","n">>),
                           JStr(<<"r","e","f","u","s","e","d">>),
                           JStr(<<"c","o","n","n","e","c","t">>),
                           JStr(<<"p","o","r","t">>)
                         >>))
                  >>)),
             Item(<<"t","i","m","e","o","u","t","_","e","r","r","o","r">>,
                  JDict(<<
                    Item(<<"d","e","s","c","r","i","p","t","i","o","n">>,
                         JStr(<<"R","e","q","u","e","s","t"," ","o","r"," ","o","p","e","r","a","t","i","o","n"," ","t",
                               "i","m","e","d"," ","o","u","t">>)),
                    Item(<<"s","o","l","u","t","i","o","n","s">>,
                         JList(<<
                           JStr(<<"I","n","c","r","e","a","s","e"," ","t","i","m","e","o","u","t"," ","v","a","l","u","e",
                                 "s"," ","i","n"," ","c","o","n","f","i","g","u","r","a",
                                 "t","i","o","n">>),
                           JStr(<<"C","h","e","c","k"," ","n","e","t","w","o","r","k"," ","c","o","n","n","e","c","t","i",
                                 "v","i","t","y"," ","a","n","d"," ","l","a","t","e","n",
                                 "c","y">>),
                           JStr(<<"M","o","n","i","t","o","r"," ","s","e","r","v","e","r"," ","p","e","r","f","o","r","m",
                                 "a","n","c","e"," ","a","n","d"," ","l","o","a","d">>),
                           JStr(<<"O","p","t","i","m","i","z","e"," ","s","l","o","w"," ","o","p","e","r","a","t","i","o",
                                 "n","s">>)
                         >>)),
                    Item(<<"k","e","y","w","o","r","d","s">>,
                         JList(<<
                           JStr(<<"t","i","m","e","o","u","t">>),
                           JStr(<<"t","i","m","e","d">>),
                           JStr(<<"s","l","o","w">>),
                           JStr(<<"l","a","t","e","n","c","y">>)
                         >>))
                  >>)),
             Item(<<"p","e","r","m","i","s","s","i","o","n","_","d","e","n","i","e","d">>,
                  JDict(<<
                    Item(<<"d","e","s","c","r","i","p","t","i","o","n">>,
                         JStr(<<"I","n","s","u","f","f","i","c","i","e","n","t"," ","p","e","r","m","i","s","s","i","o",
                               "n","s"," ","t","o"," ","a","c","c","e","s","s"," ","r","e",
                               "s","o","u","r","c","e">>)),
                    Item(<<"s","o","l","u","t","i","o","n","s">>,
                         JList(<<
                           JStr(<<"C","h","e","c","k"," ","f","i","l","e","/","d","i","r","e","c","t","o","r","y"," ","p",
                                 "e","r","m","i","s","s","i","o","n","s"," ","w","i","t",
                                 "h"," ","l","s"," ","-","l","a">>),
                           JStr(<<"V","e","r","i","f","y"," ","u","s","e","r"," ","h","a","s"," ","a","p","p","r","o","p",
                                 "r","i","a","t","e"," ","a","c","c","e","s","s"," ","r",
                                 "i","g","h","t","s">>),
                           JStr(<<"U","s","e"," ","c","h","m","o","d"," ","t","o"," ","a","d","j","u","s","t"," ","p","e",
                                 "r","m","i","s","s","i","o","n","s"," ","i","f"," ","n",
                                 "e","e","d","e","d">>),
                           JStr(<<"C","h","e","c","k"," ","S","E","L","i","n","u","x"," ","c","o","n","t","e","x","t"," ",
                                 "i","f"," ","a","p","p","l","i","c","a","b","l","e">>)
                         >>)),
                    Item(<<"k","e","y","w","o","r","d","s">>,
                         JList(<<
                           JStr(<<"p","e","r","m","i","s","s","i","o","n">>),
                           JStr(<<"d","e","n","i","e","d">>),
                           JStr(<<"a","c","c","e","s","s">>),
                           JStr(<<"f","o","r","b","i","d","d","e","n">>)
                         >>))
                  >>)),
             Item(<<"d","i","s","k","_","s","p","a","c","e","_","f","u","l","l">>,
                  JDict(<<
                    Item(<<"d","e","s","c","r","i","p","t","i","o","n">>,
                         JStr(<<"N","o"," ","s","p","a","c","e"," ","l","e","f","t"," ","o","n"," ","d","e","v","i","c",
                               "e">>)),
                    Item(<<"s","o","l","u","t","i","o","n","s">>,
                         JList(<<
                           JStr(<<"C","l","e","a","n"," ","u","p"," ","o","l","d"," ","l","o","g"," ","f","i","l","e","s",
                                 " ","a","n","d"," ","t","e","m","p","o","r","a","r","y",
                                 " ","f","i","l","e","s">>),
                           JStr(<<"U","s","e"," ","d","f"," ","-","h"," ","t","o"," ","c","h","e","c","k"," ","d","i","s",
                                 "k"," ","u","s","a","g","e">>),
                           JStr(<<"I","m","p","l","e","m","e","n","t"," ","l","o","g"," ","r","o","t","a","t","i","o","n">>),
                           JStr(<<"E","x","p","a","n","d"," ","s","t","o","r","a","g","e"," ","o","r"," ","a","d","d"," ",
                                 "n","e","w"," ","d","i","s","k">>)
                         >>)),
                    Item(<<"k","e","y","w","o","r","d","s">>,
                         JList(<<
                           JStr(<<"d","i","s","k">>),
                           JStr(<<"s","p","a","c","e">>),
                           JStr(<<"f","u","l","l">>),
                           JStr(<<"s","t","o","r","a","g","e">>)
                         >>))
                  >>)),
             Item(<<"d","a","t","a","b","a","s","e","_","e","r","r","o","r">>,
                  JDict(<<
                    Item(<<"d","e","s","c","r","i","p","t","i","o","n">>,
                         JStr(<<"D","a","t","a","b","a","s","e"," ","c","o","n","n","e","c","t","i","o","n"," ","o","r",
                               " ","q","u","e","r","y"," ","i","s","s","u","e","s">>)),
                    Item(<<"s","o","l","u","t","i","o","n","s">>,
                         JList(<<
                           JStr(<<"C","h","e","c","k"," ","d","a","t","a","b","a","s","e"," ","s","e","r","v","i","c","e",
                                 " ","s","t","a","t","u","s">>),
                           JStr(<<"V","e","r","i","f","y"," ","c","o","n","n","e","c","t","i","o","n"," ","p","a","r","a",
                                 "m","e","t","e","r","s">>),
                           JStr(<<"C","h","e","c","k"," ","d","a","t","a","b","a","s","e"," ","l","o","c","k","s"," ","a",
                                 "n","d"," ","t","r","a","n","s","a","c","t","i","o","n",
                                 "s">>),
                           JStr(<<"M","o","n","i","t","o","r"," ","d","a","t","a","b","a","s","e"," ","p","e","r","f","o",
                                 "r","m","a","n","c","e">>)
                         >>)),
                    Item(<<"k","e","y","w","o","r","d","s">>,
                         JList(<<
                           JStr(<<"d","a","t","a","b","a","s","e">>),
                           JStr(<<"d","b">>),
                           JStr(<<"s","q","l">>),
                           JStr(<<"q","u","e","r","y">>),
                           JStr(<<"t","a","b","l","e">>)
                         >>))
                  >>))
           >>)),
      Item(<<"s","y","s","t","e","m","_","c","o","m","m","a","n","d","s">>,
           JDict(<<
             Item(<<"m","e","m","o","r","y","_","c","h","e","c","k">>,
                  JList(<<
                    JStr(<<"f","r","e","e"," ","-","h"," "," ","#"," ","C","h","e","c","k"," ","m","e","m","o","r",
                          "y"," ","u","s","a","g","e">>),
                    JStr(<<"p","s"," ","a","u","x"," ","-","-","s","o","r","t","=","-","%","m","e","m"," ","|"," ",
                          "h","e","a","d"," ","-","1","0"," "," ","#"," ","T","o","p"," ",
                          "m","e","m","o","r","y"," ","c","o","n","s","u","m","e","r","s">>),
                    JStr(<<"c","a","t"," ","/","p","r","o","c","/","m","e","m","i","n","f","o"," "," ","#"," ","D",
                          "e","t","a","i","l","e","d"," ","m","e","m","o","r","y"," ","i",
                          "n","f","o">>)
                  >>)),
             Item(<<"d","i","s","k","_","c","h","e","c","k">>,
                  JList(<<
                    JStr(<<"d","f"," ","-","h"," "," ","#"," ","C","h","e","c","k"," ","d","i","s","k"," ","s","p",
                          "a","c","e">>),
                    JStr(<<"d","u"," ","-","s","h"," ","/","*"," ","|"," ","s","o","r","t"," ","-","r","h"," ","|",
                          " ","h","e","a","d"," ","-","1","0"," "," ","#"," ","L","a","r",
                          "g","e"," ","d","i","r","e","c","t","o","r","i","e","s">>),
                    JStr(<<"l","s","o","f"," ","+","L","1"," "," ","#"," ","F","i","n","d"," ","d","e","l","e","t",
                          "e","d"," ","f","i","l","e","s"," ","s","t","i","l","l"," ","o",
                          "p","e","n">>)
                  >>)),
             Item(<<"p","r","o","c","e","s","s","_","c","h","e","c","k">>,
                  JList(<<
                    JStr(<<"p","s"," ","a","u","x"," "," ","#"," ","A","l","l"," ","r","u","n","n","i","n","g"," ",
                          "p","r","o","c","e","s","s","e","s">>),
                    JStr(<<"t","o","p"," "," ","#"," ","R","e","a","l","-","t","i","m","e"," ","p","r","o","c","e",
                          "s","s"," ","m","o","n","i","t","o","r">>),
                    JStr(<<"n","e","t","s","t","a","t"," ","-","t","u","l","p","n"," "," ","#"," ","N","e","t","w",
                          "o","r","k"," ","c","o","n","n","e","c","t","i","o","n","s">>)
                  >>)),
             Item(<<"l","o","g","_","a","n","a","l","y","s","i","s">>,
                  JList(<<
                    JStr(<<"t","a","i","l"," ","-","f"," ","/","v","a","r","/","l","o","g","/","m","e","s","s","a",
                          "g","e","s"," "," ","#"," ","S","y","s","t","e","m"," ","m","e",
                          "s","s","a","g","e","s">>),
                    JStr(<<"j","o","u","r","n","a","l","c","t","l"," ","-","f"," "," ","#"," ","S","y","s","t","e",
                          "m","d"," ","l","o","g","s">>),
                    JStr(<<"g","r","e","p"," ","-","i"," ","e","r","r","o","r"," ","/","v","a","r","/","l","o","g",
                          "/","*"," "," ","#"," ","S","e","a","r","c","h"," ","f","o","r",
                          " ","e","r","r","o","r","s">>)
                  >>))
           >>)),
      Item(<<"c","e","n","t","o","s","_","s","p","e","c","i","f","i","c">>,
           JDict(<<
             Item(<<"f","i","r","e","w","a","l","l">>,
                  JList(<<
                    JStr(<<"s","u","d","o"," ","f","i","r","e","w","a","l","l","-","c","m","d"," ","-","-","l","i",
                          "s","t","-","a","l","l"," "," ","#"," ","C","h","e","c","k"," ",
                          "f","i","r","e","w","a","l","l"," ","r","u","l","e","s">>),
                    JStr(<<"s","u","d","o"," ","f","i","r","e","w","a","l","l","-","c","m","d"," ","-","-","p","e",
                          "r","m","a","n","e","n","t"," ","-","-","a","d","d","-","p","o",
                          "r","t","=","P","O","R","T","/","t","c","p"," "," ","#"," ","O",
                          "p","e","n"," ","p","o","r","t">>),
                    JStr(<<"s","u","d","o"," ","f","i","r","e","w","a","l","l","-","c","m","d"," ","-","-","r","e",
                          "l","o","a","d"," "," ","#"," ","R","e","l","o","a","d"," ","f",
                          "i","r","e","w","a","l","l">>)
                  >>)),
             Item(<<"s","e","r","v","i","c","e","s">>,
                  JList(<<
                    JStr(<<"s","u","d","o"," ","s","y","s","t","e","m","c","t","l"," ","s","t","a","t","u","s"," ",
                          "S","E","R","V","I","C","E"," "," ","#"," ","C","h","e","c","k",
                          " ","s","e","r","v","i","c","e"," ","s","t","a","t","u","s">>),
                    JStr(<<"s","u","d","o"," ","s","y","s","t","e","m","c","t","l"," ","s","t","a","r","t"," ","S",
                          "E","R","V","I","C","E"," "," ","#"," ","S","t","a","r","t"," ",
                          "s","e","r","v","i","c","e">>),
                    JStr(<<"s","u","d","o"," ","s","y","s","t","e","m","c","t","l"," ","e","n","a","b","l","e"," ",
                          "S","E","R","V","I","C","E"," "," ","#"," ","E","n","a","b","l",
                          "e"," ","o","n"," ","b","o","o","t">>)
                  >>)),
             Item(<<"p","a","c","k","a","g","e","s">>,
                  JList(<<
                    JStr(<<"s","u","d","o"," ","y","u","m"," ","u","p","d","a","t","e"," "," ","#"," ","U","p","d",
                          "a","t","e"," ","p","a","c","k","a","g","e","s">>),
                    JStr(<<"s","u","d","o"," ","y","u","m"," ","i","n","s","t","a","l","l"," ","P","A","C","K","A",
                          "G","E"," "," ","#"," ","I","n","s","t","a","l","l"," ","p","a",
                          "c","k","a","g","e">>),
                    JStr(<<"y","u","m"," ","l","i","s","t"," ","i","n","s","t","a","l","l","e","d"," ","|"," ","g",
                          "r","e","p"," ","P","A","C","K","A","G","E"," "," ","#"," ","C",
                          "h","e","c","k"," ","i","f"," ","i","n","s","t","a","l","l","e",
                          "d">>)
                  >>))
           >>))
    >>)

\* get_general_troubleshooting()
GeneralTroubleshooting ==
    <<"*","*","G","e","n","e","r","a","l"," ","T","r","o","u","b","l","e","s","h","o","o","t","i",
      "n","g"," ","S","t","e","p","s","*","*","\n","1","."," ","C","h","e","c","k"," ","s","y",
      "s","t","e","m"," ","l","o","g","s",":"," ","j","o","u","r","n","a","l","c","t","l"," ",
      "-","x","e","\n","2","."," ","M","o","n","i","t","o","r"," ","r","e","s","o","u","r","c",
      "e","s",":"," ","t","o","p",","," ","f","r","e","e"," ","-","h",","," ","d","f"," ","-",
      "h","\n","3","."," ","V","e","r","i","f","y"," ","s","e","r","v","i","c","e","s",":"," ",
      "s","y","s","t","e","m","c","t","l"," ","s","t","a","t","u","s"," ","S","E","R","V","I",
      "C","E","_","N","A","M","E","\n","4","."," ","C","h","e","c","k"," ","n","e","t","w","o",
      "r","k",":"," ","p","i","n","g",","," ","n","e","t","s","t","a","t"," ","-","t","u","l",
      "p","n","\n","5","."," ","R","e","v","i","e","w"," ","c","o","n","f","i","g","u","r","a",
      "t","i","o","n"," ","f","i","l","e","s"," ","f","o","r"," ","r","e","c","e","n","t"," ",
      "c","h","a","n","g","e","s">>

\* d.get(key, default) on a dict d
DictGet(d, key, default) ==
    IF \E i \in 1..Len(d.v) : d.v[i].k = key
    THEN d.v[CHOOSE i \in 1..Len(d.v) : d.v[i].k = key].val
    ELSE default

\* bool(x)
Truthy(x) == IF x.t = "null" THEN FALSE ELSE IF x.t = "num" THEN x.v # 0 ELSE Len(x.v) > 0

\* iter(x) succeeds: a list yields its elements, a str its characters, a dict its keys
Iterable(x) == x.t \in {"list", "str", "dict"}

Elements(x) ==
    IF x.t = "str" THEN [i \in 1..Len(x.v) |-> JStr(<<x.v[i]>>)]
    ELSE IF x.t = "dict" THEN [i \in 1..Len(x.v) |-> JStr(x.v[i].k)]
    ELSE x.v

\* x[:3] succeeds
Sliceable(x) == x.t \in {"list", "str"}

\* str(x) as an f-string formats a scalar
PyStr(x) ==
    IF x.t = "str" THEN x.v
    ELSE IF x.t = "null" THEN NoneText
    ELSE <<Digits[x.v + 1]>>

RECURSIVE Concat(_)
\* "".join(parts)
Concat(parts) == IF Len(parts) = 0 THEN << >> ELSE Head(parts) \o Concat(Tail(parts))

\* any(keyword in query_lower for keyword in keywords): the index at which the
\* generator stops (the first element that matches or is not a str), 0 if none
KeywordStop(keywords, query_lower) ==
    LET es == Elements(keywords)
        stops == {i \in 1..Len(es) : es[i].t # "str" \/ In(es[i].v, query_lower)}
    IN  IF stops = {} THEN 0 ELSE CHOOSE i \in stops : \A k \in stops : i <= k

\* one iteration of the error_solutions loop (lines 150-157): it raises, appends
\* a block ("match") or appends nothing ("skip")
EntryStatus(error_info, query_lower) ==
    IF error_info.t # "dict" THEN "raise"
    ELSE LET keywords == DictGet(error_info, K_keywords, JList(<< >>))
             stop == KeywordStop(keywords, query_lower)
         IN  IF ~Iterable(keywords) THEN "raise"
             ELSE IF stop = 0 THEN "skip"
             ELSE IF Elements(keywords)[stop].t # "str" THEN "raise"
             ELSE IF ~Sliceable(DictGet(error_info, K_solutions, JList(<< >>))) THEN "raise"
             ELSE "match"

\* the block of one matching error entry (lines 152-157)
ErrorBlock(error_type, error_info) ==
    LET solutions == Prefix(Elements(DictGet(error_info, K_solutions, JList(<< >>))), 3)
    IN  Bold \o title(replace(error_type, "_", " ")) \o Bold \o Newline
        \o DescriptionLabel \o PyStr(DictGet(error_info, K_description, JStr(NoDescription))) \o Newline
        \o SolutionsLabel
        \o Concat([i \in 1..Len(solutions) |->
                     Indent \o <<Digits[i + 1]>> \o <<".", " ">> \o PyStr(solutions[i]) \o Newline])

\* the members of idx among from..n, in ascending order
RECURSIVE Ascending(_, _, _)
Ascending(idx, from, n) ==
    IF from > n THEN << >>
    ELSE (IF from \in idx THEN <<from>> ELSE << >>) \o Ascending(idx, from + 1, n)

\* self.knowledge_data.get("error_solutions", {}).items() succeeds
HasErrorSolutions(knowledge_data) ==
    /\ knowledge_data.t = "dict"
    /\ DictGet(knowledge_data, K_error_solutions, JDict(<< >>)).t = "dict"

\* the status of every iteration of the error_solutions loop
ErrorStatuses(knowledge_data, query_lower) ==
    LET es == DictGet(knowledge_data, K_error_solutions, JDict(<< >>))
    IN  [i \in 1..Len(es.v) |-> EntryStatus(es.v[i].val, query_lower)]

\* lines 149-157 raise
ErrorSolutionsRaise(knowledge_data, query_lower) ==
    \/ ~HasErrorSolutions(knowledge_data)
    \/ LET status == ErrorStatuses(knowledge_data, query_lower)
       IN  \E i \in DOMAIN status : status[i] = "raise"

\* lines 149-157: the blocks appended, in the order of the stored entries
ErrorSolutionBlocks(knowledge_data, query_lower) ==
    LET es == DictGet(knowledge_data, K_error_solutions, JDict(<< >>))
        status == ErrorStatuses(knowledge_data, query_lower)
        hit == Ascending({i \in DOMAIN status : status[i] = "match"}, 1, Len(es.v))
    IN  [j \in 1..Len(hit) |-> ErrorBlock(es.v[hit[j]].k, es.v[hit[j]].val)]

\* commands of one command keyword (line 169)
CommandsOf(knowledge_data, k) ==
    DictGet(DictGet(knowledge_data, K_system_commands, JDict(<< >>)), CommandTypes[k], JList(<< >>))

CommandLines(commands) ==
    LET cs == Prefix(Elements(commands), 3)
    IN  Concat([i \in 1..Len(cs) |-> BulletPrefix \o PyStr(cs[i]) \o Newline])

\* lines 167-174
SystemCommandsRaise(knowledge_data, query_lower) ==
    \E k \in 1..Len(CommandKeywords) :
        /\ In(CommandKeywords[k], query_lower)
        /\ \/ DictGet(knowledge_data, K_system_commands, JDict(<< >>)).t # "dict"
           \/ /\ Truthy(CommandsOf(knowledge_data, k))
              /\ ~Sliceable(CommandsOf(knowledge_data, k))

SystemCommandBlocks(knowledge_data, query_lower) ==
    LET hit == Ascending({k \in 1..Len(CommandKeywords) :
                              /\ In(CommandKeywords[k], query_lower)
                              /\ Truthy(CommandsOf(knowledge_data, k))},
                         1, Len(CommandKeywords))
    IN  [j \in 1..Len(hit) |->
            Bold \o title(replace(CommandTypes[hit[j]], "_", " ")) \o CommandsTitle
            \o CommandLines(CommandsOf(knowledge_data, hit[j]))]

\* lines 177-182
CentOSRaise(knowledge_data, query_lower) ==
    /\ AnyIn(CentOSTerms, query_lower)
    /\ LET cs == DictGet(knowledge_data, K_centos_specific, JDict(<< >>))
       IN  \/ cs.t # "dict"
           \/ \E i \in 1..Len(cs.v) : ~Sliceable(cs.v[i].val)

CentOSBlocks(knowledge_data, query_lower) ==
    LET cs == DictGet(knowledge_data, K_centos_specific, JDict(<< >>))
    IN  IF AnyIn(CentOSTerms, query_lower)
        THEN [i \in 1..Len(cs.v) |->
                CentOSTitle \o title(cs.v[i].k) \o CommandsTitle \o CommandLines(cs.v[i].val)]
        ELSE << >>

get_general_troubleshooting == GeneralTroubleshooting

\* relevant_content when the search runs to line 184
RelevantContent(knowledge_data, query) ==
    ErrorSolutionBlocks(knowledge_data, lower(query))
    \o SystemCommandBlocks(knowledge_data, lower(query))
    \o CentOSBlocks(knowledge_data, lower(query))

SearchRaises(knowledge_data, query) ==
    \/ ErrorSolutionsRaise(knowledge_data, lower(query))
    \/ SystemCommandsRaise(knowledge_data, lower(query))
    \/ CentOSRaise(knowledge_data, lower(query))

\* search_relevant_content keeping the last n_results blocks instead of the first
search_relevant_content_last(knowledge_data, query, n_results) ==
    IF SearchRaises(knowledge_data, query) THEN [exc |-> TRUE, val |-> << >>]
    ELSE LET relevant_content == RelevantContent(knowledge_data, query)
         IN  [exc |-> FALSE,
              val |-> IF Len(relevant_content) > 0
                      THEN join(Newline, Suffix(relevant_content, n_results))
                      ELSE get_general_troubleshooting]

\* search_relevant_content(query, n_results): the returned str, or an exception
search_relevant_content(knowledge_data, query, n_results) ==
    IF SearchRaises(knowledge_data, query) THEN [exc |-> TRUE, val |-> << >>]
    ELSE LET relevant_content == RelevantContent(knowledge_data, query)
         IN  [exc |-> FALSE,
              val |-> IF Len(relevant_content) > 0
                      THEN join(Newline, Prefix(relevant_content, n_results))
                      ELSE get_general_troubleshooting]

-----------------------------------------------------------------------------
(* The persisted knowledge file data/knowledge_base.json *)

K_nginx_restart == <<"n","g","i","n","x","_","r","e","s","t","a","r","t">>
NginxDescription ==
    <<"n","g","i","n","x"," ","w","o","r","k","e","r"," ","e","x","i","t","s"," ","o","n"," ","r",
      "e","l","o","a","d">>
NginxSolution1 ==
    <<"R","u","n"," ","n","g","i","n","x"," ","-","t"," ","b","e","f","o","r","e"," ","r","e","l",
      "o","a","d","i","n","g">>
NginxSolution2 ==
    <<"C","h","e","c","k"," ","t","h","e"," ","e","r","r","o","r"," ","l","o","g"," ","f","o","r",
      " ","t","h","e"," ","f","a","i","l","i","n","g"," ","d","i","r","e","c","t","i","v","e">>
KW_nginx == <<"n","g","i","n","x">>
KW_restart == <<"r","e","s","t","a","r","t">>
KW_backup == <<"b","a","c","k","u","p">>

\* a custom entry as add_custom_solution stores it
NginxEntry(keywords) ==
    JDict(<<Item(K_description, JStr(NginxDescription)),
            Item(K_solutions, JList(<<JStr(NginxSolution1), JStr(NginxSolution2)>>)),
            Item(K_keywords, keywords)>>)

File(exists, parses, data) == [exists |-> exists, parses |-> parses, data |-> data]

\* contents the persisted file can have when a KnowledgeBase is constructed:
\* absent, not JSON, the saved defaults, and other JSON documents
KnowledgeFiles ==
    <<File(FALSE, FALSE, JNull),
      File(TRUE, FALSE, JNull),
      File(TRUE, TRUE, default_kb),
      File(TRUE, TRUE, JDict(<< >>)),
      File(TRUE, TRUE, JDict(<<Item(K_error_solutions,
            JDict(<<Item(K_nginx_restart, NginxEntry(JList(<<JStr(KW_nginx), JStr(KW_restart)>>)))>>))>>)),
      File(TRUE, TRUE, JList(<< >>)),
      File(TRUE, TRUE, JDict(<<Item(K_error_solutions,
            JDict(<<Item(K_nginx_restart, NginxEntry(JNull))>>))>>)),
      File(TRUE, TRUE, JDict(<<Item(K_error_solutions, JDict(<< >>)),
                               Item(K_system_commands, JNull)>>)),
      File(TRUE, TRUE, JDict(<<Item(K_error_solutions,
            JDict(<<Item(K_nginx_restart, NginxEntry(JList(<<JStr(KW_restart \o <<" ">>)>>)))>>))>>)),
      File(TRUE, TRUE, JDict(<<Item(K_error_solutions,
            JDict(<<Item(K_nginx_restart,
                         JDict(<<Item(K_description, JStr(ErrorText(RESULT_LIMIT + 100))),
                                 Item(K_keywords, JList(<<JStr(KW_backup)>>))>>))>>))>>))>>

\* load_knowledge_base(): the file's JSON document, or default_kb when the file is
\* absent or json.load fails
load_knowledge_base(file) == IF file.exists /\ file.parses THEN file.data ELSE default_kb

\* the file after load_knowledge_base(): the defaults are saved when they are used
FileAfterLoad(file) == IF file.exists /\ file.parses THEN file ELSE File(TRUE, TRUE, default_kb)

-----------------------------------------------------------------------------
(* The model endpoint: what ollama.chat can do with a request *)

K_error == <<"e","r","r","o","r">>
K_message == <<"m","e","s","s","a","g","e">>
K_content == <<"c","o","n","t","e","n","t">>
Quote == <<"'">>
ConnectionRefusedText ==
    <<"[","E","r","r","n","o"," ","1","1","1","]"," ","C","o","n","n","e","c","t","i","o","n"," ",
      "r","e","f","u","s","e","d">>
ModelNotFoundText ==
    <<"m","o","d","e","l"," ","'","l","l","a","m","a","3","'"," ","n","o","t"," ","f","o","u","n",
      "d">>

Returns(response) == [raises |-> FALSE, response |-> response, message |-> << >>]

Raises(message) == [raises |-> TRUE, response |-> JNull, message |-> message]

\* outcomes of one ollama.chat call: an answer, a response without 'message', a
\* message without 'content', and exceptions (connection refused, unknown model,
\* an exception whose str() is empty)
OllamaOutcomes ==
    <<Returns(JDict(<<Item(K_message, JDict(<<Item(K_content, JStr(AssistantReply))>>))>>)),
      Returns(JDict(<< >>)),
      Returns(JDict(<<Item(K_message, JDict(<< >>))>>)),
      Raises(ConnectionRefusedText),
      Raises(ModelNotFoundText),
      Raises(<< >>)>>

-----------------------------------------------------------------------------
(* ChatInterface: the model call and the response *)

KB_TIMEOUT == 2

OLLAMA_TIMEOUT == 25

SEARCH_N_RESULTS == 2

HasKey(d, key) == \E i \in 1..Len(d.v) : d.v[i].k = key

\* str(KeyError(key))
KeyErrorText(key) == Quote \o key \o Quote

\* f"Sorry, I encountered an error: {detail}. Please try again."
Sorry(detail) == SorryPrefix \o detail \o SorrySuffix

\* {"error": "Response timeout - please try a simpler query"} (line 243)
TimeoutResponse == JDict(<<Item(K_error, JStr(TimeoutMessage))>>)

\* {"error": str(e)} (line 247)
ErrorResponse(message) == JDict(<<Item(K_error, JStr(message))>>)

\* what _call_ollama_optimized returns once future.result() has returned or raised
\* (lines 239-240, 245-247)
OllamaResult(outcome) ==
    IF outcome.raises THEN ErrorResponse(outcome.message) ELSE outcome.response

\* generate_response, lines 81-84: response['message']['content'] is reached and
\* evaluates without a KeyError
AnswerReached(response) ==
    /\ ~Truthy(DictGet(response, K_error, JNull))
    /\ HasKey(response, K_message)
    /\ HasKey(DictGet(response, K_message, JNull), K_content)

\* generate_response, lines 81-98: the string returned for a response
ResponseText(response) ==
    IF Truthy(DictGet(response, K_error, JNull))
    THEN Sorry(PyStr(DictGet(response, K_error, JNull)))
    ELSE IF ~HasKey(response, K_message) THEN Sorry(KeyErrorText(K_message))
    ELSE IF ~HasKey(DictGet(response, K_message, JNull), K_content)
    THEN Sorry(KeyErrorText(K_content))
    ELSE PyStr(DictGet(DictGet(response, K_message, JNull), K_content, JNull))

\* the result passed on whole
LimitContextUnbounded(result) == result

\* _get_context_with_timeout, line 129: result[:800] if result else ""
LimitContext(result) == IF Len(result) > 0 THEN Prefix(result, RESULT_LIMIT) ELSE << >>

-----------------------------------------------------------------------------
(* ChatInterface.test_ollama_connection *)

K_models == <<"m","o","d","e","l","s">>

K_name == <<"n","a","m","e">>

ModelName == <<"l","l","a","m","a","3">>

\* type(x).__name__
TypeName(x) ==
    CASE x.t = "null" -> <<"N","o","n","e","T","y","p","e">>
      [] x.t = "num" -> <<"i","n","t">>
      [] x.t = "str" -> <<"s","t","r">>
      [] x.t = "list" -> <<"l","i","s","t">>
      [] x.t = "dict" -> <<"d","i","c","t">>

\* outcomes of ollama.list(): an exception, a response that is no dict, a dict
\* without 'models', and 'models' values of several shapes
ListOutcomes ==
    <<Raises(ConnectionRefusedText),
      Raises(<< >>),
      Returns(JList(<< >>)),
      Returns(JDict(<< >>)),
      Returns(JDict(<<Item(K_models, JList(<< >>))>>)),
      Returns(JDict(<<Item(K_models, JNull)>>)),
      Returns(JDict(<<Item(K_models, JStr(ModelName))>>)),
      Returns(JDict(<<Item(K_models, JList(<<JNum(1)>>))>>)),
      Returns(JDict(<<Item(K_models, JList(<<JDict(<<Item(K_name, JStr(ModelName))>>)>>))>>)),
      Returns(JDict(<<Item(K_models, JList(<<JDict(<< >>)>>))>>)),
      Returns(JDict(<<Item(K_models, JList(<<JDict(<<Item(K_name, JStr(ModelName))>>),
                                             JDict(<<Item(K_name, JNull)>>)>>))>>)),
      Returns(JDict(<<Item(K_models, JList(<<JDict(<<Item(K_name, JStr(ModelName))>>),
                                             JDict(<<Item(K_name, JStr(K_name))>>)>>))>>))>>

\* lines 275-277: (False, f"Connection failed: {str(e)}")
ConnectionFailed(message) ==
    [ok |-> FALSE,
     detail |-> <<"C","o","n","n","e","c","t","i","o","n"," ","f","a","i","l","e","d",":"," ">> \o message]

\* the test of line 269 left out
NoModelsNeverTested(available_models) == FALSE

\* line 269: not available_models
NoModelsAvailable(available_models) == Len(available_models) = 0

\* lines 262-277, for one outcome of ollama.list()
test_ollama_connection(outcome) ==
    IF outcome.raises THEN ConnectionFailed(outcome.message)
    ELSE IF outcome.response.t # "dict" \/ ~HasKey(outcome.response, K_models)
    THEN [ok |-> FALSE,
          detail |-> <<"I","n","v","a","l","i","d"," ","r","e","s","p","o","n","s","e"," ","f","o","r","m","a","t",
          " ","f","r","o","m"," ","O","l","l","a","m","a">>]
    ELSE
    LET models == DictGet(outcome.response, K_models, JList(<< >>))
        ms == Elements(models)
        names == [i \in 1..Len(ms) |-> DictGet(ms[i], K_name, JStr(<< >>))]
    IN  IF ~Iterable(models)
        THEN ConnectionFailed(<<"'">> \o TypeName(models)
                              \o <<"'"," ","o","b","j","e","c","t"," ","i","s"," ","n","o","t"," ","i","t","e","r","a","b","l",
          "e">>)
        ELSE IF \E i \in 1..Len(ms) : ms[i].t # "dict"
        THEN LET i == CHOOSE i \in 1..Len(ms) :
                          ms[i].t # "dict" /\ \A j \in 1..(i - 1) : ms[j].t = "dict"
             IN  ConnectionFailed(<<"'">> \o TypeName(ms[i])
                                  \o <<"'"," ","o","b","j","e","c","t"," ","h","a","s"," ","n","o"," ","a","t","t","r","i","b","u",
          "t","e"," ","'","g","e","t","'">>)
        ELSE IF NoModelsAvailable(names)
        THEN [ok |-> FALSE,
              detail |-> <<"N","o"," ","m","o","d","e","l","s"," ","a","v","a","i","l","a","b","l","e"," ","i","n"," ",
          "O","l","l","a","m","a">>]
        ELSE IF \E i \in 1..Len(names) : names[i].t # "str"
        THEN LET i == CHOOSE i \in 1..Len(names) :
                          names[i].t # "str" /\ \A j \in 1..(i - 1) : names[j].t = "str"
             IN  ConnectionFailed(<<"s","e","q","u","e","n","c","e"," ","i","t","e","m"," ">> \o <<Digits[i]>>
                                  \o <<":"," ","e","x","p","e","c","t","e","d"," ","s","t","r"," ","i","n","s","t","a","n","c","e",
          ","," ">>
                                  \o TypeName(names[i]) \o <<" ","f","o","u","n","d">>)
        ELSE [ok |-> TRUE,
              detail |-> <<"C","o","n","n","e","c","t","e","d","."," ","A","v","a","i","l","a","b","l","e"," ","m","o",
          "d","e","l","s",":"," ">>
                         \o join(<<",", " ">>, [i \in 1..Len(names) |-> names[i].v])]

-----------------------------------------------------------------------------
(* State *)

NThreads == 2

MaxCalls == 3

MaxTurns == 2

MaxResults == 3

MaxExchanges == 7

Threads == 1..NThreads

\* the single request thread of a session
MainThread == 1

VARIABLES
    knowledge_file,     \* index in KnowledgeFiles of the document on disk
    knowledge_base,     \* self.knowledge_base: 0 for None, else the index in
                        \* KnowledgeFiles of the document its knowledge_data was loaded from
    kb_load_attempted,  \* self.kb_load_attempted
    kb_lock,            \* self._kb_lock: 0 when free, else the holding thread
    memory,             \* self.memory: the messages of the conversation buffer
    memory_threads,     \* the threads started at line 87: their arguments, whether they ran,
                        \* and whether clear_memory was called since they were started
    pc,                 \* where each thread is
    caller,             \* what called _get_context_with_timeout on each thread
    user_input,         \* per thread: the query of the call in progress
    uploaded_file,      \* per thread: whether a file is attached
    context,            \* per thread: the value _get_context_with_timeout returned
    prompt,             \* per thread: the composed prompt
    response,           \* per thread: what _call_ollama_optimized returned
    returned,           \* per thread: what generate_response returned
    future,             \* per thread: the Future of the executor in use
    timedOut,           \* per thread: the waits of this call that ended in FutureTimeoutError
    calls,              \* calls started on the instance
    kbConstructed,      \* how many times KnowledgeBase() was executed
    ctorFailed,         \* KnowledgeBase() raised
    ollamaCalls,        \* per thread: ollama.chat submissions in the current turn
    args,               \* arguments of a function applied on its own
    out                 \* its result

vars ==
    <<knowledge_file, knowledge_base, kb_load_attempted, kb_lock, memory, memory_threads,
      pc, caller, user_input, uploaded_file, context, prompt, response, returned, future,
      timedOut, calls, kbConstructed, ctorFailed, ollamaCalls, args, out>>

kbVars == <<knowledge_file, knowledge_base, kb_load_attempted, kb_lock, kbConstructed, ctorFailed>>

pureVars == <<args, out>>

\* knowledge_data of the KnowledgeBase object kb
KnowledgeData(kb) == load_knowledge_base(KnowledgeFiles[kb])

\* the index of the saved defaults in KnowledgeFiles
DefaultsFile == 3

NoFuture == [state |-> "none", exc |-> FALSE, val |-> << >>]

Running == [state |-> "running", exc |-> FALSE, val |-> << >>]

Done(exc, val) == [state |-> "done", exc |-> exc, val |-> val]

NoArgs == [fn |-> "none", query |-> << >>, context |-> << >>, uploaded_file |-> FALSE,
           kb |-> DefaultsFile, n_results |-> 1, list |-> 1]

NoOut == [fn |-> "none", exc |-> FALSE, val |-> << >>]

\* ChatInterface.__init__ (lines 16-19), no call in progress on any thread
InitChat ==
    /\ knowledge_base = 0
    /\ kb_load_attempted = FALSE
    /\ kb_lock = 0
    /\ memory_threads = << >>
    /\ pc = [t \in Threads |-> "idle"]
    /\ caller = [t \in Threads |-> "none"]
    /\ user_input = [t \in Threads |-> << >>]
    /\ uploaded_file = [t \in Threads |-> FALSE]
    /\ context = [t \in Threads |-> << >>]
    /\ prompt = [t \in Threads |-> << >>]
    /\ response = [t \in Threads |-> JNull]
    /\ returned = [t \in Threads |-> << >>]
    /\ future = [t \in Threads |-> NoFuture]
    /\ timedOut = [t \in Threads |-> {}]
    /\ calls = 0
    /\ kbConstructed = 0
    /\ ctorFailed = FALSE
    /\ ollamaCalls = [t \in Threads |-> 0]

\* the documents a session starts with: no file, a custom knowledge base, a JSON
\* document that is not an object
SessionFiles == {1, 5, 6}

Init ==
    /\ InitChat
    /\ memory = << >>
    /\ knowledge_file \in SessionFiles
    /\ args = NoArgs
    /\ out = NoOut

\* the documents the concurrent callers start with: no file, a file that is not
\* JSON, two JSON documents of another shape than the defaults, and a custom
\* entry with a long description
ContextFiles == {1, 2, 6, 7, 10}

InitKB ==
    /\ InitChat
    /\ memory = << >>
    /\ knowledge_file \in ContextFiles
    /\ args = NoArgs
    /\ out = NoOut

-----------------------------------------------------------------------------
(* _lazy_load_kb and _get_context_with_timeout, one thread's steps *)

\* _get_context_with_timeout returns value on thread t (to generate_response, line 71,
\* or to a direct caller)
ReturnContext(t, value) ==
    /\ context' = [context EXCEPT ![t] = value]
    /\ pc' = [pc EXCEPT ![t] = IF caller[t] = "generate_response" THEN "build_prompt"
                                ELSE "returned"]

\* a direct call of _get_context_with_timeout(query, timeout=2)
GetContext(t, query) ==
    /\ pc[t] = "idle"
    /\ calls < MaxCalls
    /\ calls' = calls + 1
    /\ caller' = [caller EXCEPT ![t] = "direct"]
    /\ user_input' = [user_input EXCEPT ![t] = query]
    /\ pc' = [pc EXCEPT ![t] = "lazy_load"]
    /\ UNCHANGED <<kbVars, memory, memory_threads, uploaded_file, context, prompt, response,
                   returned, future, timedOut, ollamaCalls, pureVars>>

\* line 45: the unlocked test of kb_load_attempted
LazyLoadCheck(t) ==
    /\ pc[t] = "lazy_load"
    /\ pc' = [pc EXCEPT ![t] = IF kb_load_attempted THEN "kb_test" ELSE "acquire"]
    /\ UNCHANGED <<kbVars, memory, memory_threads, caller, user_input, uploaded_file, context,
                   prompt, response, returned, future, timedOut, calls, ollamaCalls, pureVars>>

\* line 46: with self._kb_lock
AcquireLock(t) ==
    /\ pc[t] = "acquire"
    /\ kb_lock = 0
    /\ kb_lock' = t
    /\ pc' = [pc EXCEPT ![t] = "double_check"]
    /\ UNCHANGED <<knowledge_file, knowledge_base, kb_load_attempted, kbConstructed, ctorFailed,
                   memory, memory_threads, caller, user_input, uploaded_file, context,
                   prompt, response, returned, future, timedOut, calls, ollamaCalls, pureVars>>

\* DoubleCheck that sets kb_load_attempted before the construction instead of after
DoubleCheckSetsFlag(t) ==
    /\ pc[t] = "double_check"
    /\ IF kb_load_attempted
       THEN /\ kb_lock' = 0
            /\ kb_load_attempted' = kb_load_attempted
            /\ pc' = [pc EXCEPT ![t] = "kb_test"]
       ELSE /\ kb_lock' = kb_lock
            /\ kb_load_attempted' = TRUE
            /\ pc' = [pc EXCEPT ![t] = "construct"]
    /\ UNCHANGED <<knowledge_file, knowledge_base, kbConstructed, ctorFailed,
                   memory, memory_threads, caller, user_input, uploaded_file, context,
                   prompt, response, returned, future, timedOut, calls, ollamaCalls, pureVars>>

\* DoubleCheck without line 47: whoever gets the lock constructs
DoubleCheckSkipped(t) ==
    /\ pc[t] = "double_check"
    /\ pc' = [pc EXCEPT ![t] = "construct"]
    /\ UNCHANGED <<kbVars, memory, memory_threads, caller, user_input, uploaded_file, context,
                   prompt, response, returned, future, timedOut, calls, ollamaCalls, pureVars>>

\* line 47: the test repeated under the lock; the lock is released when it fails
DoubleCheck(t) ==
    /\ pc[t] = "double_check"
    /\ IF kb_load_attempted
       THEN /\ kb_lock' = 0
            /\ pc' = [pc EXCEPT ![t] = "kb_test"]
       ELSE /\ kb_lock' = kb_lock
            /\ pc' = [pc EXCEPT ![t] = "construct"]
    /\ UNCHANGED <<knowledge_file, knowledge_base, kb_load_attempted, kbConstructed, ctorFailed,
                   memory, memory_threads, caller, user_input, uploaded_file, context,
                   prompt, response, returned, future, timedOut, calls, ollamaCalls, pureVars>>

\* lines 50, 52-54: KnowledgeBase() runs; it returns the object (ok) or raises
\* (os.makedirs fails), and then knowledge_base is set to None
Construct(t, ok) ==
    /\ pc[t] = "construct"
    /\ kbConstructed' = kbConstructed + 1
    /\ IF ok
       THEN /\ knowledge_base' = knowledge_file
            /\ knowledge_file' = IF KnowledgeFiles[knowledge_file].exists
                                    /\ KnowledgeFiles[knowledge_file].parses
                                 THEN knowledge_file ELSE DefaultsFile
            /\ ctorFailed' = ctorFailed
       ELSE /\ knowledge_base' = 0
            /\ knowledge_file' = knowledge_file
            /\ ctorFailed' = TRUE
    /\ pc' = [pc EXCEPT ![t] = "finally"]
    /\ UNCHANGED <<kb_load_attempted, kb_lock, memory, memory_threads, caller, user_input,
                   uploaded_file, context, prompt, response, returned, future, timedOut,
                   calls, ollamaCalls, pureVars>>

\* Finally with kb_load_attempted set only when the construction succeeded
FinallyOnSuccessOnly(t) ==
    /\ pc[t] = "finally"
    /\ kb_load_attempted' = (knowledge_base # 0)
    /\ kb_lock' = 0
    /\ pc' = [pc EXCEPT ![t] = "kb_test"]
    /\ UNCHANGED <<knowledge_file, knowledge_base, kbConstructed, ctorFailed,
                   memory, memory_threads, caller, user_input, uploaded_file, context,
                   prompt, response, returned, future, timedOut, calls, ollamaCalls, pureVars>>

\* lines 55-56, and the end of the with block
Finally(t) ==
    /\ pc[t] = "finally"
    /\ kb_load_attempted' = TRUE
    /\ kb_lock' = 0
    /\ pc' = [pc EXCEPT ![t] = "kb_test"]
    /\ UNCHANGED <<knowledge_file, knowledge_base, kbConstructed, ctorFailed,
                   memory, memory_threads, caller, user_input, uploaded_file, context,
                   prompt, response, returned, future, timedOut, calls, ollamaCalls, pureVars>>

\* lines 115-116: no knowledge base, return ""
NoKnowledgeBase(t) ==
    /\ pc[t] = "kb_test"
    /\ knowledge_base = 0
    /\ ReturnContext(t, << >>)
    /\ UNCHANGED <<kbVars, memory, memory_threads, caller, user_input, uploaded_file,
                   prompt, response, returned, future, timedOut, calls, ollamaCalls, pureVars>>

\* lines 121-126: the search is submitted to a one-worker executor
SubmitSearch(t) ==
    /\ pc[t] = "kb_test"
    /\ knowledge_base # 0
    /\ future' = [future EXCEPT ![t] = Running]
    /\ pc' = [pc EXCEPT ![t] = "search_wait"]
    /\ UNCHANGED <<kbVars, memory, memory_threads, caller, user_input, uploaded_file, context,
                   prompt, response, returned, timedOut, calls, ollamaCalls, pureVars>>

\* the worker: search_relevant_content(query, 2) returns or raises
SearchWorker(t) ==
    /\ pc[t] \in {"search_wait", "search_exit"}
    /\ future[t].state = "running"
    /\ LET r == search_relevant_content(KnowledgeData(knowledge_base), user_input[t],
                                        SEARCH_N_RESULTS)
       IN  future' = [future EXCEPT ![t] = Done(r.exc, r.val)]
    /\ UNCHANGED <<kbVars, memory, memory_threads, pc, caller, user_input, uploaded_file,
                   context, prompt, response, returned, timedOut, calls, ollamaCalls, pureVars>>

\* lines 128-129, 134-136: future.result(timeout) returns the result or re-raises
\* the worker's exception within the deadline; the executor's worker has finished
SearchResult(t) ==
    /\ pc[t] = "search_wait"
    /\ future[t].state = "done"
    /\ ReturnContext(t, IF future[t].exc THEN << >> ELSE LimitContext(future[t].val))
    /\ UNCHANGED <<kbVars, memory, memory_threads, caller, user_input, uploaded_file,
                   prompt, response, returned, future, timedOut, calls, ollamaCalls, pureVars>>

\* lines 130-132: the deadline passes with the worker still running; "" is the
\* value to return, and the with block is left
SearchTimeout(t) ==
    /\ pc[t] = "search_wait"
    /\ future[t].state = "running"
    /\ timedOut' = [timedOut EXCEPT ![t] = @ \cup {"search"}]
    /\ pc' = [pc EXCEPT ![t] = "search_exit"]
    /\ UNCHANGED <<kbVars, memory, memory_threads, caller, user_input, uploaded_file, context,
                   prompt, response, returned, future, calls, ollamaCalls, pureVars>>

\* line 121: leaving `with ThreadPoolExecutor(...)` calls shutdown(wait=True), which
\* joins the worker thread; only then does the return statement complete
SearchExit(t) ==
    /\ pc[t] = "search_exit"
    /\ future[t].state = "done"
    /\ ReturnContext(t, << >>)
    /\ UNCHANGED <<kbVars, memory, memory_threads, caller, user_input, uploaded_file,
                   prompt, response, returned, future, timedOut, calls, ollamaCalls, pureVars>>

-----------------------------------------------------------------------------
(* generate_response on the request thread *)

\* lines 58-72: the query is classified; a simple query gets its prompt at once,
\* any other goes through _get_context_with_timeout(user_input, timeout=2)
GenerateResponse(t, query, uploaded) ==
    /\ pc[t] = "idle"
    /\ calls < MaxTurns
    /\ calls' = calls + 1
    /\ caller' = [caller EXCEPT ![t] = "generate_response"]
    /\ user_input' = [user_input EXCEPT ![t] = query]
    /\ uploaded_file' = [uploaded_file EXCEPT ![t] = uploaded]
    /\ IF _is_simple_query(query)
       THEN /\ prompt' = [prompt EXCEPT ![t] = _build_simple_prompt(query, uploaded)]
            /\ pc' = [pc EXCEPT ![t] = "call_ollama"]
       ELSE /\ prompt' = prompt
            /\ pc' = [pc EXCEPT ![t] = "lazy_load"]
    /\ UNCHANGED <<kbVars, memory, memory_threads, context, response, returned, future,
                   timedOut, ollamaCalls, pureVars>>

\* line 72: the full-mode prompt, reading the conversation memory as it is now
BuildPrompt(t) ==
    /\ pc[t] = "build_prompt"
    /\ prompt' = [prompt EXCEPT ![t] =
                     _build_optimized_prompt(user_input[t], context[t], uploaded_file[t], memory)]
    /\ pc' = [pc EXCEPT ![t] = "call_ollama"]
    /\ UNCHANGED <<kbVars, memory, memory_threads, caller, user_input, uploaded_file, context,
                   response, returned, future, timedOut, calls, ollamaCalls, pureVars>>

\* lines 231-237: ollama.chat is submitted to a one-worker executor
SubmitOllama(t) ==
    /\ pc[t] = "call_ollama"
    /\ future' = [future EXCEPT ![t] = Running]
    /\ ollamaCalls' = [ollamaCalls EXCEPT ![t] = @ + 1]
    /\ pc' = [pc EXCEPT ![t] = "ollama_wait"]
    /\ UNCHANGED <<kbVars, memory, memory_threads, caller, user_input, uploaded_file, context,
                   prompt, response, returned, timedOut, calls, pureVars>>

\* the worker: ollama.chat returns or raises (outcome o of OllamaOutcomes)
OllamaWorker(t, o) ==
    /\ pc[t] \in {"ollama_wait", "ollama_exit"}
    /\ future[t].state = "running"
    /\ future' = [future EXCEPT ![t] = Done(OllamaOutcomes[o].raises, o)]
    /\ UNCHANGED <<kbVars, memory, memory_threads, pc, caller, user_input, uploaded_file,
                   context, prompt, response, returned, timedOut, calls, ollamaCalls, pureVars>>

\* lines 239-240, 245-247: future.result(timeout=25) returns or re-raises within
\* the deadline
OllamaReturn(t) ==
    /\ pc[t] = "ollama_wait"
    /\ future[t].state = "done"
    /\ response' = [response EXCEPT ![t] = OllamaResult(OllamaOutcomes[future[t].val])]
    /\ pc' = [pc EXCEPT ![t] = "respond"]
    /\ UNCHANGED <<kbVars, memory, memory_threads, caller, user_input, uploaded_file, context,
                   prompt, returned, future, timedOut, calls, ollamaCalls, pureVars>>

\* OllamaTimeout that submits the call again instead of giving up
OllamaTimeoutRetry(t) ==
    /\ pc[t] = "ollama_wait"
    /\ future[t].state = "running"
    /\ timedOut' = [timedOut EXCEPT ![t] = @ \cup {"ollama"}]
    /\ response' = [response EXCEPT ![t] = TimeoutResponse]
    /\ pc' = [pc EXCEPT ![t] = "call_ollama"]
    /\ UNCHANGED <<kbVars, memory, memory_threads, caller, user_input, uploaded_file, context,
                   prompt, returned, future, calls, ollamaCalls, pureVars>>

\* lines 241-243: the deadline passes with the worker still running; the timeout
\* dict is the value to return, and the with block is left
OllamaTimeout(t) ==
    /\ pc[t] = "ollama_wait"
    /\ future[t].state = "running"
    /\ timedOut' = [timedOut EXCEPT ![t] = @ \cup {"ollama"}]
    /\ response' = [response EXCEPT ![t] = TimeoutResponse]
    /\ pc' = [pc EXCEPT ![t] = "ollama_exit"]
    /\ UNCHANGED <<kbVars, memory, memory_threads, caller, user_input, uploaded_file, context,
                   prompt, returned, future, calls, ollamaCalls, pureVars>>

\* line 231: leaving `with ThreadPoolExecutor(...)` joins the worker thread
OllamaExit(t) ==
    /\ pc[t] = "ollama_exit"
    /\ future[t].state = "done"
    /\ pc' = [pc EXCEPT ![t] = "respond"]
    /\ UNCHANGED <<kbVars, memory, memory_threads, caller, user_input, uploaded_file, context,
                   prompt, response, returned, future, timedOut, calls, ollamaCalls, pureVars>>

\* Respond that starts the memory thread before it looks at the response
RespondAlwaysRecords(t) ==
    /\ pc[t] = "respond"
    /\ returned' = [returned EXCEPT ![t] = ResponseText(response[t])]
    /\ memory_threads' =
          Append(memory_threads,
                 [input |-> user_input[t], output |-> ResponseText(response[t]),
                  ran |-> FALSE, cleared |-> FALSE])
    /\ pc' = [pc EXCEPT ![t] = "returned"]
    /\ UNCHANGED <<kbVars, memory, caller, user_input, uploaded_file, context, prompt, response,
                   future, timedOut, calls, ollamaCalls, pureVars>>

\* Respond that writes the exchange to memory itself before it returns
RespondAfterWrite(t) ==
    /\ pc[t] = "respond"
    /\ returned' = [returned EXCEPT ![t] = ResponseText(response[t])]
    /\ IF AnswerReached(response[t])
       THEN /\ memory' = _update_memory_async(memory, user_input[t], ResponseText(response[t]))
            /\ memory_threads' =
                  Append(memory_threads,
                         [input |-> user_input[t], output |-> ResponseText(response[t]),
                          ran |-> TRUE, cleared |-> FALSE])
       ELSE UNCHANGED <<memory, memory_threads>>
    /\ pc' = [pc EXCEPT ![t] = "returned"]
    /\ UNCHANGED <<kbVars, caller, user_input, uploaded_file, context, prompt, response,
                   future, timedOut, calls, ollamaCalls, pureVars>>

\* lines 81-98: the error message, or the answer with the memory thread started
Respond(t) ==
    /\ pc[t] = "respond"
    /\ returned' = [returned EXCEPT ![t] = ResponseText(response[t])]
    /\ memory_threads' =
          IF AnswerReached(response[t])
          THEN Append(memory_threads,
                      [input |-> user_input[t], output |-> ResponseText(response[t]),
                       ran |-> FALSE, cleared |-> FALSE])
          ELSE memory_threads
    /\ pc' = [pc EXCEPT ![t] = "returned"]
    /\ UNCHANGED <<kbVars, memory, caller, user_input, uploaded_file, context, prompt, response,
                   future, timedOut, calls, ollamaCalls, pureVars>>

\* the call on thread t is over: its caller has the value and the frame is gone
Return(t) ==
    /\ pc[t] = "returned"
    /\ pc' = [pc EXCEPT ![t] = "idle"]
    /\ caller' = [caller EXCEPT ![t] = "none"]
    /\ user_input' = [user_input EXCEPT ![t] = << >>]
    /\ uploaded_file' = [uploaded_file EXCEPT ![t] = FALSE]
    /\ context' = [context EXCEPT ![t] = << >>]
    /\ prompt' = [prompt EXCEPT ![t] = << >>]
    /\ response' = [response EXCEPT ![t] = JNull]
    /\ returned' = [returned EXCEPT ![t] = << >>]
    /\ future' = [future EXCEPT ![t] = NoFuture]
    /\ timedOut' = [timedOut EXCEPT ![t] = {}]
    /\ ollamaCalls' = [ollamaCalls EXCEPT ![t] = 0]
    /\ UNCHANGED <<kbVars, memory, memory_threads, calls, pureVars>>

\* _update_memory_async on the i-th started thread (lines 249-258)
UpdateMemory(i) ==
    /\ i \in 1..Len(memory_threads)
    /\ ~memory_threads[i].ran
    /\ memory' = _update_memory_async(memory, memory_threads[i].input, memory_threads[i].output)
    /\ memory_threads' = [memory_threads EXCEPT ![i].ran = TRUE]
    /\ UNCHANGED <<kbVars, pc, caller, user_input, uploaded_file, context, prompt, response,
                   returned, future, timedOut, calls, ollamaCalls, pureVars>>

\* self.memory.clear()
clear_memory(mem) == << >>

\* clear_memory() called between two turns (lines 279-285)
ClearMemory ==
    /\ pc[MainThread] = "idle"
    /\ memory' = clear_memory(memory)
    /\ memory_threads' = [i \in 1..Len(memory_threads) |->
                             [memory_threads[i] EXCEPT !.cleared = TRUE]]
    /\ UNCHANGED <<kbVars, pc, caller, user_input, uploaded_file, context, prompt, response,
                   returned, future, timedOut, calls, ollamaCalls, pureVars>>

-----------------------------------------------------------------------------
(* Specifications *)

\* queries of the request thread's turns
TurnQueries == {Q_hi, Q_port, Q_also, Q_this, Q_plain}

\* queries of direct calls of _get_context_with_timeout
ContextQueries == {Q_also, Q_plain}

\* one session: the request thread runs generate_response turn after turn, with
\* the executors' workers and the memory threads running beside it
Next ==
    \/ \E q \in TurnQueries, f \in BOOLEAN : GenerateResponse(MainThread, q, f)
    \/ LazyLoadCheck(MainThread)
    \/ AcquireLock(MainThread)
    \/ DoubleCheck(MainThread)
    \/ \E ok \in BOOLEAN : Construct(MainThread, ok)
    \/ Finally(MainThread)
    \/ NoKnowledgeBase(MainThread)
    \/ SubmitSearch(MainThread)
    \/ SearchWorker(MainThread)
    \/ SearchResult(MainThread)
    \/ SearchTimeout(MainThread)
    \/ SearchExit(MainThread)
    \/ BuildPrompt(MainThread)
    \/ SubmitOllama(MainThread)
    \/ \E o \in 1..Len(OllamaOutcomes) : OllamaWorker(MainThread, o)
    \/ OllamaReturn(MainThread)
    \/ OllamaTimeout(MainThread)
    \/ OllamaExit(MainThread)
    \/ Respond(MainThread)
    \/ Return(MainThread)
    \/ \E i \in 1..Len(memory_threads) : UpdateMemory(i)

Spec == Init /\ [][Next]_vars

\* several threads call _get_context_with_timeout on one ChatInterface
NextKB ==
    \E t \in Threads :
        \/ \E q \in ContextQueries : GetContext(t, q)
        \/ LazyLoadCheck(t)
        \/ AcquireLock(t)
        \/ DoubleCheck(t)
        \/ \E ok \in BOOLEAN : Construct(t, ok)
        \/ Finally(t)
        \/ NoKnowledgeBase(t)
        \/ SubmitSearch(t)
        \/ SearchWorker(t)
        \/ SearchResult(t)
        \/ SearchTimeout(t)
        \/ SearchExit(t)
        \/ Return(t)

SpecKB == InitKB /\ [][NextKB]_vars

\* one session in which the caller also clears the memory between turns
NextClear ==
    \/ Next
    \/ ClearMemory

SpecClear == Init /\ [][NextClear]_vars

\* one function applied to arguments drawn from the input sets
Contexts ==
    {<< >>, Repeat(" ", 4) \o <<"o","k">>, GeneralTroubleshooting, ErrorText(RESULT_LIMIT)}

PureFunctions ==
    {"_is_simple_query", "_seems_like_followup", "_build_simple_prompt",
     "_build_optimized_prompt", "search_relevant_content", "test_ollama_connection"}

\* the arguments a function reads; the others stay at their defaults
Reads(fn, field) ==
    CASE field = "context" -> fn = "_build_optimized_prompt"
      [] field = "uploaded_file" -> fn \in {"_build_simple_prompt", "_build_optimized_prompt"}
      [] field = "memory" -> fn = "_build_optimized_prompt"
      [] field \in {"kb", "n_results"} -> fn = "search_relevant_content"
      [] field = "list" -> fn = "test_ollama_connection"
      [] field = "query" -> fn # "test_ollama_connection"

InitPure ==
    /\ InitChat
    /\ knowledge_file = DefaultsFile
    /\ out = NoOut
    /\ \E fn \in PureFunctions, q \in Queries, c \in Contexts, u \in BOOLEAN,
          k \in 1..Len(KnowledgeFiles), n \in 1..MaxResults, h \in Histories,
          l \in 1..Len(ListOutcomes) :
          /\ Reads(fn, "query") \/ q = Q_hi
          /\ Reads(fn, "list") \/ l = 1
          /\ Reads(fn, "context") \/ c = << >>
          /\ Reads(fn, "uploaded_file") \/ ~u
          /\ Reads(fn, "memory") \/ h = << >>
          /\ Reads(fn, "kb") \/ k = DefaultsFile
          /\ Reads(fn, "n_results") \/ n = 1
          /\ args = [fn |-> fn, query |-> q, context |-> c, uploaded_file |-> u,
                     kb |-> k, n_results |-> n, list |-> l]
          /\ memory = h

Apply_is_simple_query ==
    /\ args.fn = "_is_simple_query" /\ out.fn = "none"
    /\ out' = [fn |-> args.fn, exc |-> FALSE, val |-> _is_simple_query(args.query)]
    /\ UNCHANGED <<kbVars, memory, memory_threads, pc, caller, user_input, uploaded_file,
                   context, prompt, response, returned, future, timedOut, calls, ollamaCalls,
                   args>>

Apply_seems_like_followup ==
    /\ args.fn = "_seems_like_followup" /\ out.fn = "none"
    /\ out' = [fn |-> args.fn, exc |-> FALSE, val |-> _seems_like_followup(args.query)]
    /\ UNCHANGED <<kbVars, memory, memory_threads, pc, caller, user_input, uploaded_file,
                   context, prompt, response, returned, future, timedOut, calls, ollamaCalls,
                   args>>

Apply_build_simple_prompt ==
    /\ args.fn = "_build_simple_prompt" /\ out.fn = "none"
    /\ out' = [fn |-> args.fn, exc |-> FALSE,
               val |-> _build_simple_prompt(args.query, args.uploaded_file)]
    /\ UNCHANGED <<kbVars, memory, memory_threads, pc, caller, user_input, uploaded_file,
                   context, prompt, response, returned, future, timedOut, calls, ollamaCalls,
                   args>>

Apply_build_optimized_prompt ==
    /\ args.fn = "_build_optimized_prompt" /\ out.fn = "none"
    /\ out' = [fn |-> args.fn, exc |-> FALSE,
               val |-> _build_optimized_prompt(args.query, args.context, args.uploaded_file,
                                               memory)]
    /\ UNCHANGED <<kbVars, memory, memory_threads, pc, caller, user_input, uploaded_file,
                   context, prompt, response, returned, future, timedOut, calls, ollamaCalls,
                   args>>

Apply_search_relevant_content ==
    /\ args.fn = "search_relevant_content" /\ out.fn = "none"
    /\ LET r == search_relevant_content(KnowledgeData(args.kb), args.query, args.n_results)
       IN  out' = [fn |-> args.fn, exc |-> r.exc, val |-> r.val]
    /\ UNCHANGED <<kbVars, memory, memory_threads, pc, caller, user_input, uploaded_file,
                   context, prompt, response, returned, future, timedOut, calls, ollamaCalls,
                   args>>

Apply_test_ollama_connection ==
    /\ args.fn = "test_ollama_connection" /\ out.fn = "none"
    /\ out' = [fn |-> args.fn, exc |-> FALSE,
               val |-> test_ollama_connection(ListOutcomes[args.list])]
    /\ UNCHANGED <<kbVars, memory, memory_threads, pc, caller, user_input, uploaded_file,
                   context, prompt, response, returned, future, timedOut, calls, ollamaCalls,
                   args>>

NextPure ==
    \/ Apply_is_simple_query
    \/ Apply_seems_like_followup
    \/ Apply_build_simple_prompt
    \/ Apply_build_optimized_prompt
    \/ Apply_search_relevant_content
    \/ Apply_test_ollama_connection

SpecPure == InitPure /\ [][NextPure]_vars

\* the conversation memory on its own: exchanges are saved one after the other
\* and the window is read back in between
MemoryInputs == {Q_hi, Q_plain}

Apply_update_memory_async(input, output) ==
    /\ Len(memory) < 2 * MaxExchanges
    /\ memory' = _update_memory_async(memory, input, output)
    /\ UNCHANGED <<kbVars, memory_threads, pc, caller, user_input, uploaded_file, context,
                   prompt, response, returned, future, timedOut, calls, ollamaCalls, pureVars>>

Apply_load_memory_variables ==
    /\ out' = [fn |-> "load_memory_variables", exc |-> FALSE,
               val |-> load_memory_variables(memory)]
    /\ UNCHANGED <<kbVars, memory, memory_threads, pc, caller, user_input, uploaded_file,
                   context, prompt, response, returned, future, timedOut, calls, ollamaCalls,
                   args>>

NextMemory ==
    \/ \E q \in MemoryInputs : Apply_update_memory_async(q, AssistantReply)
    \/ Apply_load_memory_variables

SpecMemory == Init /\ [][NextMemory]_vars

-----------------------------------------------------------------------------
(* Claims *)

\* thread t is past _lazy_load_kb in a call of _get_context_with_timeout
PastLazyLoad(t) == pc[t] \in {"kb_test", "search_wait", "search_exit", "build_prompt", "returned"}

\* C1: however the threads that call _lazy_load_kb before the knowledge base is
\* loaded interleave, KnowledgeBase() is executed exactly once: never twice, and
\* once by the time any thread is past _lazy_load_kb.
C1_ConstructedExactlyOnce ==
    /\ kbConstructed <= 1
    /\ \A t \in Threads : PastLazyLoad(t) => kbConstructed = 1

\* a thread that passed the unlocked test of line 45 before the load was attempted
\* holds the lock after another thread's construction has finished
C1_Witness ==
    \E t \in Threads : pc[t] = "double_check" /\ kb_load_attempted /\ kbConstructed = 1

\* C2 (as claimed): when the deadline has passed with the worker still running,
\* the operation can return its fallback without the worker finishing.
C2_ReturnsWithoutWorker ==
    \A t \in Threads :
        (timedOut[t] # {} /\ future[t].state = "running")
            => ENABLED (SearchExit(t) \/ OllamaExit(t))

\* C3: once KnowledgeBase() has failed, it is never executed again, the knowledge
\* base stays unset, and every call of _get_context_with_timeout returns "".
C3_FailedConstructionIsFinal ==
    ctorFailed =>
        /\ kbConstructed = 1
        /\ knowledge_base = 0
        /\ \A t \in Threads : pc[t] = "returned" => context[t] = << >>

\* the construction failed and every call the bound allows, more than there are
\* threads, has been made; one has just returned
C3_Witness ==
    /\ ctorFailed
    /\ calls = MaxCalls
    /\ \A t \in Threads : pc[t] \in {"idle", "returned"}
    /\ \E t \in Threads : pc[t] = "returned"

\* C4: when the model call has not completed at its deadline, the result of
\* _call_ollama_optimized is the error dict with the timeout message (control
\* stays on the normal return path), ollama.chat was submitted exactly once in
\* the turn, and generate_response returns the error message built from it.
C4_TimeoutIsErrorResult ==
    \A t \in Threads :
        "ollama" \in timedOut[t] =>
            /\ pc[t] \in {"ollama_exit", "respond", "returned"}
            /\ response[t] = TimeoutResponse
            /\ ollamaCalls[t] = 1
            /\ pc[t] = "returned" => returned[t] = Sorry(TimeoutMessage)

\* generate_response has returned from a turn whose model call timed out
C4_Witness == \E t \in Threads : pc[t] = "returned" /\ "ollama" \in timedOut[t]

\* the model call of thread t's turn ended in a failure other than a timeout
ModelCallFailed(t) ==
    /\ caller[t] = "generate_response"
    /\ "ollama" \notin timedOut[t]
    /\ future[t].state = "done"
    /\ LET o == OllamaOutcomes[future[t].val]
       IN  \/ o.raises
           \/ ~HasKey(o.response, K_message)
           \/ ~HasKey(DictGet(o.response, K_message, JNull), K_content)

\* the message of that failure: the exception's, or the KeyError's for the
\* field the response lacks
FailureMessage(t) ==
    LET o == OllamaOutcomes[future[t].val]
    IN  IF o.raises THEN o.message
        ELSE IF ~HasKey(o.response, K_message) THEN KeyErrorText(K_message)
        ELSE KeyErrorText(K_content)

\* C5 (as claimed): for every failure of the model call other than a timeout,
\* generate_response returns 'Sorry, I encountered an error: <detail>. Please try
\* again.' with <detail> the failure's message.
C5_FailureDetailReturned ==
    \A t \in Threads :
        (pc[t] = "returned" /\ ModelCallFailed(t)) => returned[t] = Sorry(FailureMessage(t))

\* some keyword of some stored error entry, some command keyword or some CentOS
\* term occurs in the lower-cased query (read only where the search returned)
SomethingMatches(knowledge_data, query) ==
    LET es == DictGet(knowledge_data, K_error_solutions, JDict(<< >>))
    IN  \/ \E i \in 1..Len(es.v) :
              LET kws == Elements(DictGet(es.v[i].val, K_keywords, JList(<< >>)))
              IN  \E k \in 1..Len(kws) : In(kws[k].v, lower(query))
        \/ AnyIn(CommandKeywords, lower(query))
        \/ AnyIn(CentOSTerms, lower(query))

\* C6 (as claimed): for every query, every n_results >= 1 and whatever knowledge
\* data the persisted file held, search_relevant_content does not raise and
\* returns a non-empty string, the general-troubleshooting text when nothing
\* matches the query.
C6_SearchNeverFails ==
    out.fn = "search_relevant_content" =>
        /\ ~out.exc
        /\ Len(out.val) > 0
        /\ ~SomethingMatches(KnowledgeData(args.kb), args.query)
              => out.val = GeneralTroubleshooting

\* C7 (as claimed): the full-mode prompt is at most PROMPT_LIMIT characters
\* long, and ends with the truncation marker whenever the assembled prompt was
\* longer than that.
C7_FullPromptWithinCap ==
    out.fn = "_build_optimized_prompt" =>
        /\ Len(out.val) <= PROMPT_LIMIT
        /\ Len(AssembledPrompt(args.query, args.context, args.uploaded_file, memory)) > PROMPT_LIMIT
              => endswith(out.val, TruncationMarker)

\* C8 (as claimed): for a query classified simple, the simple-mode prompt is
\* non-empty and at most PROMPT_LIMIT characters long.
C8_SimplePromptWithinCap ==
    (out.fn = "_build_simple_prompt" /\ _is_simple_query(args.query)) =>
        /\ Len(out.val) > 0
        /\ Len(out.val) <= PROMPT_LIMIT

IsWordChar(c) == IsCased(c) \/ c \in {Digits[i] : i \in 1..Len(Digits)}

\* p occurs in s as a word or phrase: an occurrence with no letter or digit
\* right before or right after it
HasWord(p, s) ==
    \E i \in 1..(Len(s) - Len(p) + 1) :
        /\ \A j \in 1..Len(p) : s[i + j - 1] = p[j]
        /\ i = 1 \/ ~IsWordChar(s[i - 1])
        /\ i + Len(p) > Len(s) \/ ~IsWordChar(s[i + Len(p)])

\* the classification the claim states: at most 5 words, or a greeting/thanks
\* token, or a question under 50 characters
ClaimedSimple(query) ==
    \/ SplitLen(query) <= SIMPLE_MAX_WORDS
    \/ \E k \in 1..Len(Greetings) : HasWord(Greetings[k], lower(query))
    \/ (endswith(strip(query), <<"?">>) /\ Len(query) < SIMPLE_QUESTION_LEN)

\* the prompt of thread t's turn was composed in simple mode
SimpleComposed(t) == prompt[t] = _build_simple_prompt(user_input[t], uploaded_file[t])

\* C9 (as claimed): generate_response composes in simple mode exactly when the
\* query has at most 5 words, or is a greeting/thanks token, or is a question
\* under 50 characters; it composes every other query in full mode.
C9_SimpleModeExactlyWhenClaimed ==
    \A t \in Threads :
        pc[t] = "call_ollama" => (SimpleComposed(t) <=> ClaimedSimple(user_input[t]))

\* the prompt has a history section
HasHistorySection(p) == In(ParagraphSep \o HistoryLabel, p)

\* the query contains a continuation word as a word or phrase
ClaimedFollowup(query) ==
    \E k \in 1..Len(FollowupIndicators) : HasWord(FollowupIndicators[k], lower(query))

\* C10 (as claimed): in full-mode composition with a non-empty history, the
\* prompt has a history section exactly when the query contains one of the
\* continuation words as a word or phrase.
C10_HistoryExactlyForFollowups ==
    (out.fn = "_build_optimized_prompt" /\ Len(memory) > 0) =>
        (HasHistorySection(out.val) <=> ClaimedFollowup(args.query))

\* C11 (as claimed): the window read back holds at most 5 messages, the most
\* recently appended ones.
C11_WindowOfFiveMessages ==
    out.fn = "load_memory_variables" => Len(out.val) <= MEMORY_K

\* C11 (amended): the window read back holds at most 5 exchanges, that is 10
\* messages (5 user and 5 assistant), namely the most recently appended ones in
\* oldest-first order; after 7 exchanges exactly the last 5 exchanges remain.
C11_WindowOfFiveExchanges ==
    [][out' # out =>
         /\ Len(out'.val) = Min(Len(memory), 2 * MEMORY_K)
         /\ \A i \in 1..Len(out'.val) :
                out'.val[i] = memory[Len(memory) - Len(out'.val) + i]]_vars

C11_Witness ==
    /\ out.fn = "load_memory_variables"
    /\ Len(memory) = 2 * 7
    /\ Len(out.val) = 2 * MEMORY_K
    /\ out.val[1] = memory[5]

\* s is one of generate_response's error messages
IsSorry(s) == Len(s) >= Len(SorryPrefix) /\ Prefix(s, Len(SorryPrefix)) = SorryPrefix

\* the content of the answer ollama.chat gave on thread t
ModelAnswer(t) ==
    DictGet(DictGet(OllamaOutcomes[future[t].val].response, K_message, JNull), K_content, JNull).v

\* generate_response returns on thread t in this step
Returns_generate_response(t) == pc[t] = "respond" /\ pc'[t] = "returned"

\* C12: generate_response returns the model's answer without the memory write of
\* that exchange having been made: the step that returns an answer leaves the
\* memory as it was and the write of the exchange pending, and the answer
\* returned is the model's whatever the memory holds; the next turn may read the
\* history with that write still pending (C12_Witness) or done (C12_WitnessVisible).
C12_AnswerReturnedBeforeWrite ==
    [][\A t \in Threads :
          (Returns_generate_response(t) /\ ~IsSorry(returned'[t])) =>
              /\ memory' = memory
              /\ returned'[t] = ModelAnswer(t)
              /\ Len(memory_threads') = Len(memory_threads) + 1
              /\ ~memory_threads'[Len(memory_threads')].ran]_vars

\* the next turn reads the history while the previous exchange's write is pending
C12_Witness ==
    /\ pc[MainThread] = "build_prompt"
    /\ _seems_like_followup(user_input[MainThread])
    /\ Len(memory_threads) = 1
    /\ ~memory_threads[1].ran
    /\ memory = << >>

\* the next turn reads the history with the previous exchange visible
C12_WitnessVisible ==
    /\ pc[MainThread] = "build_prompt"
    /\ _seems_like_followup(user_input[MainThread])
    /\ Len(memory_threads) = 1
    /\ memory_threads[1].ran
    /\ Len(memory) = 2

FirewallWord == <<"f","i","r","e","w","a","l","l">>

SystemctlWord == <<"s","y","s","t","e","m","c","t","l">>

ConnectionRefusedKey ==
    <<"c","o","n","n","e","c","t","i","o","n","_","r","e","f","u","s","e","d">>

\* the knowledge base built from the session's file holds the connection_refused entry
HasConnectionRefusedEntry ==
    LET knowledge_data == load_knowledge_base(KnowledgeFiles[knowledge_file])
    IN  /\ knowledge_data.t = "dict"
        /\ HasKey(DictGet(knowledge_data, K_error_solutions, JDict(<< >>)), ConnectionRefusedKey)

\* C13 (as claimed): for the query 'connection refused on port 8080' and a
\* knowledge base holding the connection_refused entry, the prompt sent to the
\* model contains 'firewall' or 'systemctl'.
C13_PortQueryPromptCitesSolution ==
    \A t \in Threads :
        (pc[t] = "call_ollama" /\ user_input[t] = Q_port /\ HasConnectionRefusedEntry) =>
            (In(FirewallWord, prompt[t]) \/ In(SystemctlWord, prompt[t]))

\* the response of ollama.list() has the shape {models: [...]}
ListsModels(o) ==
    /\ ~o.raises
    /\ o.response.t = "dict"
    /\ HasKey(o.response, K_models)
    /\ DictGet(o.response, K_models, JNull).t = "list"

\* the models the response registers
RegisteredModels(o) == IF ListsModels(o) THEN Len(DictGet(o.response, K_models, JNull).v) ELSE 0

\* C14: test_ollama_connection never raises; it returns ok = false with a detail
\* string whenever the list-models call fails, its response is not of the shape
\* {models: [...]}, or no model is registered; it returns ok = true only when at
\* least one model is registered.
C14_ProbeReportsFailure ==
    out.fn = "test_ollama_connection" =>
        LET o == ListOutcomes[args.list]
        IN  /\ ~out.exc
            /\ out.val.ok \in BOOLEAN
            /\ (o.raises \/ ~ListsModels(o) \/ RegisteredModels(o) = 0) =>
                   (~out.val.ok /\ Len(out.val.detail) > 0)
            /\ out.val.ok => RegisteredModels(o) >= 1

\* the probe answered for a response {models: []}
C14_Witness ==
    /\ out.fn = "test_ollama_connection"
    /\ ListsModels(ListOutcomes[args.list])
    /\ RegisteredModels(ListOutcomes[args.list]) = 0
    /\ ~out.val.ok

\* the normalized form of a query: lower-cased, surrounding whitespace trimmed
Normalized(query) == strip(lower(query))

\* C15 (as claimed): with unchanged knowledge data, two calls of
\* search_relevant_content whose queries have the same normalized form and the
\* same n_results give the same outcome, byte-identical output included.
C15_SameNormalizedQuerySameOutput ==
    out.fn = "search_relevant_content" =>
        \A other \in Queries :
            Normalized(other) = Normalized(args.query) =>
                LET again == search_relevant_content(KnowledgeData(args.kb), other, args.n_results)
                IN  /\ again.exc = out.exc
                    /\ ~out.exc => again.val = out.val

\* a direct call of _get_context_with_timeout has returned on thread t
ContextReturned(t) == pc[t] = "returned" /\ caller[t] = "direct"

\* value is the first RESULT_LIMIT characters of result
FirstCharacters(value, result) ==
    /\ Len(value) = Min(Len(result), RESULT_LIMIT)
    /\ \A i \in 1..Len(value) : value[i] = result[i]

\* C16: _get_context_with_timeout returns (it does not raise) either the empty
\* string or the first 800 characters of the search result: the empty string
\* when the search exceeded the deadline, when the search raised and when no
\* knowledge base is available, and never more than 800 characters.
C16_ContextEmptyOrLimited ==
    \A t \in Threads :
        ContextReturned(t) =>
            /\ \/ context[t] = << >>
               \/ /\ future[t].state = "done" /\ ~future[t].exc
                  /\ FirstCharacters(context[t], future[t].val)
            /\ Len(context[t]) <= RESULT_LIMIT
            /\ "search" \in timedOut[t] => context[t] = << >>
            /\ (future[t].state = "done" /\ future[t].exc) => context[t] = << >>
            /\ knowledge_base = 0 => context[t] = << >>

\* a search result longer than the limit was returned cut to it
C16_Witness ==
    \E t \in Threads :
        /\ ContextReturned(t)
        /\ Len(future[t].val) > RESULT_LIMIT
        /\ Len(context[t]) = RESULT_LIMIT

\* exchanges were answered, and clear_memory was called after every one of them
AllAnsweredBeforeClear ==
    /\ Len(memory_threads) > 0
    /\ \A i \in 1..Len(memory_threads) : memory_threads[i].cleared

\* C17 (as claimed): once clear_memory has returned, the window holds no turn of
\* an exchange answered before the clear was called, also when the memory write
\* of that exchange was still pending at that moment.
C17_ClearedExchangesStayOut ==
    AllAnsweredBeforeClear => load_memory_variables(memory) = << >>

\* the blocks of the three match strategies for the query of the call, in their
\* priority order
ErrorMatches == ErrorSolutionBlocks(KnowledgeData(args.kb), lower(args.query))

CommandMatches == SystemCommandBlocks(KnowledgeData(args.kb), lower(args.query))

CentOSSections == CentOSBlocks(KnowledgeData(args.kb), lower(args.query))

Ranked == ErrorMatches \o CommandMatches \o CentOSSections

\* the search of the call returned and something matched
SearchMatched == out.fn = "search_relevant_content" /\ ~out.exc /\ Len(Ranked) > 0

\* C18: search_relevant_content returns at most n_results blocks in the priority
\* order error-solution matches (stored entry order), system-command matches,
\* CentOS sections: a block appears in the output only if every block ranked
\* before it appears too, and the output is the first n_results blocks of the
\* ranked list, joined by newlines.
C18_FirstBlocksInPriorityOrder ==
    SearchMatched =>
        /\ Cardinality({j \in 1..Len(Ranked) : In(Ranked[j], out.val)}) <= args.n_results
        /\ \A j \in 1..Len(Ranked) :
               In(Ranked[j], out.val) => \A i \in 1..(j - 1) : In(Ranked[i], out.val)
        /\ out.val = join(Newline, [i \in 1..Min(args.n_results, Len(Ranked)) |-> Ranked[i]])

\* blocks of two strategies were returned and a lower-ranked block was cut off
C18_Witness ==
    /\ SearchMatched
    /\ Len(ErrorMatches) >= 1
    /\ args.n_results > Len(ErrorMatches)
    /\ Len(CommandMatches) >= 1
    /\ Len(Ranked) > args.n_results
    /\ In(CommandMatches[1], out.val)
    /\ ~In(Ranked[Len(Ranked)], out.val)

\* the step writes the exchange of one pending memory thread, an answered one
WritesAnsweredExchange ==
    \E i \in 1..Len(memory_threads) :
        /\ ~memory_threads[i].ran
        /\ ~IsSorry(memory_threads[i].output)
        /\ memory' = memory \o <<Human(memory_threads[i].input), AI(memory_threads[i].output)>>

\* C19: an exchange is recorded only if the model call succeeded: a turn that
\* returns an error message starts no memory write and leaves the memory as it
\* is, a turn that returns an answer starts exactly one memory write, for that
\* exchange, and the memory changes only by the write of an answered exchange.
C19_OnlyAnsweredExchangesRecorded ==
    [][/\ \A t \in Threads :
             Returns_generate_response(t) =>
                 /\ memory' = memory
                 /\ IF IsSorry(returned'[t])
                    THEN memory_threads' = memory_threads
                    ELSE /\ Len(memory_threads') = Len(memory_threads) + 1
                         /\ SubSeq(memory_threads', 1, Len(memory_threads)) = memory_threads
                         /\ memory_threads'[Len(memory_threads')].input = user_input[t]
                         /\ memory_threads'[Len(memory_threads')].output = returned'[t]
       /\ memory' # memory => WritesAnsweredExchange]_vars

\* a turn ended in an error message after an earlier turn was answered
C19_Witness ==
    /\ pc[MainThread] = "returned"
    /\ IsSorry(returned[MainThread])
    /\ Len(memory_threads) = 1
    /\ Len(memory) = 2

\* the messages of the exchanges answered so far, in the order they were answered
RECURSIVE AnsweredOrder(_)
AnsweredOrder(n) ==
    IF n = 0 THEN << >>
    ELSE AnsweredOrder(n - 1)
         \o <<Human(memory_threads[n].input), AI(memory_threads[n].output)>>

\* C20 (as claimed): once the background writes of the exchanges answered one
\* after the other have all completed, the memory holds the exchanges in the
\* order they were answered.
C20_WritesInAnswerOrder ==
    (\A i \in 1..Len(memory_threads) : memory_threads[i].ran) =>
        memory = AnsweredOrder(Len(memory_threads))

\* thread t is inside the try statement of _lazy_load_kb (lines 48-56)
Constructing(t) == pc[t] \in {"construct", "finally"}

\* thread t has returned from _lazy_load_kb and is at the test of line 115
LazyLoadReturned(t) == pc[t] = "kb_test"

\* what a thread back from _lazy_load_kb can rely on
LoadSettled ==
    /\ \A t \in Threads : LazyLoadReturned(t) =>
           /\ kb_load_attempted
           /\ \A u \in Threads : ~Constructing(u)
           /\ knowledge_base = 0 => ctorFailed
    /\ \A t \in Threads : Constructing(t) => ~kb_load_attempted

\* C21: kb_load_attempted is set only after knowledge_base has its final value
\* and never reverts to false, and knowledge_base never changes afterwards; no
\* thread back from _lazy_load_kb sees knowledge_base unset while a construction
\* is in progress, so retrieval is skipped only when the construction failed.
C21_FlagFollowsFinalValue ==
    [][/\ kb_load_attempted => (kb_load_attempted' /\ knowledge_base' = knowledge_base)
       /\ LoadSettled']_vars

\* a construction has succeeded and the flag is not set yet, with another first
\* caller waiting for the lock
C21_Witness ==
    \E t, u \in Threads :
        /\ pc[u] = "finally" /\ knowledge_base # 0 /\ ~kb_load_attempted
        /\ pc[t] = "acquire"

=============================================================================
